---------------------------- MODULE Spec2Model ----------------------------
(***************************************************************************)
(* A model of RAMCloud's LogCleaner (src/src/Log.h, the LogCleaner.cc part *)
(* that starts at line 99): the worker pool (start, stop,                  *)
(* cleanerThreadEntry), the doWork loop, in-memory compaction and disk     *)
(* cleaning.  Segment, SegmentManager, the entry handlers and the          *)
(* constants of LogCleaner.h are not part of the source tree at hand; they *)
(* are modelled from the specification's sections 3, 4.3, 4.4 and 4.6.     *)
(***************************************************************************)
EXTENDS Integers, Sequences, FiniteSets, TLC

(***************************************************************************)
(* Constants of LogCleaner.h (specification 4.6.1).                        *)
(***************************************************************************)
MIN_MEMORY_UTILIZATION == 90
MEMORY_DEPLETED_UTILIZATION == 98
MIN_DISK_UTILIZATION == 95
MAX_CLEANABLE_MEMORY_UTILIZATION == 90
MAX_LIVE_SEGMENTS_PER_DISK_PASS == 2
SURVIVOR_SEGMENTS_TO_RESERVE == 2

(***************************************************************************)
(* Configuration read by the constructor.                                  *)
(***************************************************************************)
segletSize == 10
segmentSize == 30
segletsPerSegment == segmentSize \div segletSize

\* The bytes of the SEGMENT_HEADER entry every segment starts with
\* (specification 6): appended, and never counted in liveBytes.
HeaderLen == 1

(***************************************************************************)
(* Bounds of the model.                                                    *)
(***************************************************************************)
MaxThreads == 4
MaxTicks == 1
MaxPasses == 2
MaxNow == 2

NULL == 0
\* The modulus of unsigned arithmetic.  The model checker's integers are of
\* 32 bits, so 2^30 stands for the 2^32 of uint32_t (and for 2^64): every
\* quantity of the model is far below either.
UINT32 == 1073741824

\* Utilization percentages the allocator and the segment manager may report.
MemLevels == {89, 92, 98}
DiskLevels == {94, 95}
\* The same of a log that is short of memory and not of disk space.
PressureLevels == {90, 98}
CalmLevels == {94}

Min(a, b) == IF a <= b THEN a ELSE b

VARIABLES
    numThreads,               \* config->master.cleanerThreadCount
    writeCostThreshold,       \* config->master.cleanerWriteCostThreshold
    disableInMemoryCleaning,
    threads,                  \* slot -> thread id, or NULL
    threadsShouldExit,
    threadCnt,                \* static volatile uint32_t threadCnt
    doWorkSleepTicks,
    workers,                  \* thread id -> the thread's position and locals
    nextTid,                  \* threads created so far
    mainPc,                   \* the caller of start() and stop()
    stopIndex,                \* i of stop()'s loop
    lastCall,                 \* the last call that returned: none, start,
                              \* start again (no slot was empty), stop
    now,                      \* WallTime::secondsTimestamp()
    segs,                     \* slot -> segment
    registry,                 \* entry -> reference held by the key registry
    tombDead,                 \* tombstones whose object's segment is gone
    cleanable,                \* segments the manager has not yet handed out
    candidates,               \* LogCleaner::candidates
    pass,                     \* thread id -> locals of the pass under way
    handover,                 \* thread id -> what the last completed pass handed over
    aborted,                  \* the process died (assert, FatalError, DIE)
    totalRuns,                \* onDiskMetrics.totalRuns
    onDiskMetrics,            \* the other counters of onDiskMetrics
    totalSegmentsCompacted,   \* inMemoryMetrics.totalSegmentsCompacted
    call                      \* the call of a function under examination

lifeVars == <<numThreads, writeCostThreshold, disableInMemoryCleaning, threads,
              threadsShouldExit, threadCnt, doWorkSleepTicks, workers, nextTid,
              mainPc, stopIndex, lastCall>>
logVars == <<now, segs, registry, tombDead, cleanable, candidates, pass,
             handover, aborted, totalRuns, onDiskMetrics, totalSegmentsCompacted>>
logVarsButPass == <<now, segs, registry, tombDead, cleanable, candidates,
                   aborted, totalRuns, onDiskMetrics, totalSegmentsCompacted>>
vars == <<lifeVars, logVars, call>>

\* onDiskMetrics before the first pass.
NoMetrics ==
    [totalMemoryBytesFreed |-> 0, totalDiskBytesFreed |-> 0,
     totalSegmentsCleaned |-> 0, totalSurvivorsCreated |-> 0]

\* No function is under examination.
NoCall == [fn |-> "none"]


(***************************************************************************)
(* Worker threads.                                                         *)
(***************************************************************************)
Slots == 0 .. (numThreads - 1)

\* CleanerThreadState and the locals of doWork, as a thread is created.
NewWorker ==
    [pc |-> "entry", threadNumber |-> 0, fresh |-> FALSE, memUtil |-> 0,
     lowOnMemory |-> FALSE, notKeepingUp |-> FALSE, lowOnDiskSpace |-> FALSE,
     haveWorkToDo |-> FALSE, ran |-> "none", worked |-> FALSE, slept |-> FALSE]

\* The locals of a pass, outside a pass.
NoPass ==
    [segment |-> NULL, freeableSeglets |-> 0, survivor |-> NULL,
     segmentsToClean |-> <<>>, entries |-> <<>>, idx |-> 1,
     survivors |-> <<>>, bytesAppended |-> 0, entryBytesAppended |-> 0,
     currentSurvivorBytesAppended |-> 0, maxLiveBytes |-> 0,
     segletsBefore |-> 0, syncIdx |-> 1, fallback |-> FALSE,
     retry |-> FALSE]

NoHandover == [kind |-> "none"]

Running == {t \in DOMAIN workers : workers[t].pc # "exited"}

\* A constructor that leaves the write cost threshold out of account.
thresholdIgnored(wct) == FALSE

\* if (writeCostThreshold == 0) disableInMemoryCleaning = true.
thresholdDisables(wct) == wct = 0

\* The constructor past the reservation of the survivor segments: `disable`
\* is config->master.disableInMemoryCleaning.
Construct(n, wct, disable) ==
    /\ numThreads = n
    /\ writeCostThreshold = wct
    /\ disableInMemoryCleaning = (disable \/ thresholdDisables(wct))
    /\ threads = [i \in 0 .. (n - 1) |-> NULL]
    /\ threadsShouldExit = FALSE
    /\ threadCnt = 0
    /\ doWorkSleepTicks = 0
    /\ workers = <<>>
    /\ nextTid = 0
    /\ mainPc = "idle"
    /\ stopIndex = 0
    /\ lastCall = "none"
    /\ pass = <<>>
    /\ handover = <<>>
    /\ aborted = FALSE
    /\ totalRuns = 0
    /\ onDiskMetrics = NoMetrics
    /\ totalSegmentsCompacted = 0
    /\ candidates = <<>>

\* A start() that does not look at what a slot holds.
EverySlot == Slots

\* The slots start() fills: those that hold no thread.
StartSlots == {i \in Slots : threads[i] = NULL}

\* The thread ids start() hands out, in slot order.
StartTid(i) == nextTid + Cardinality({j \in StartSlots : j <= i})

start ==
    /\ mainPc = "idle"
    /\ ~aborted
    /\ nextTid + Cardinality(StartSlots) <= MaxThreads
    /\ threads' = [i \in Slots |->
                      IF i \in StartSlots THEN StartTid(i) ELSE threads[i]]
    /\ nextTid' = nextTid + Cardinality(StartSlots)
    /\ workers' = [t \in DOMAIN workers \cup {StartTid(i) : i \in StartSlots} |->
                      IF t \in DOMAIN workers THEN workers[t] ELSE NewWorker]
    /\ pass' = [t \in DOMAIN workers' |->
                      IF t \in DOMAIN pass THEN pass[t] ELSE NoPass]
    /\ handover' = [t \in DOMAIN workers' |->
                      IF t \in DOMAIN handover THEN handover[t] ELSE NoHandover]
    /\ lastCall' = IF StartSlots = {} THEN "start again" ELSE "start"
    /\ UNCHANGED <<call, numThreads, writeCostThreshold, disableInMemoryCleaning,
                   threadsShouldExit, threadCnt, doWorkSleepTicks, mainPc,
                   stopIndex, logVarsButPass>>

\* stop(): threadsShouldExit = true; Fence::sfence().
stopBegin ==
    /\ mainPc = "idle"
    /\ ~aborted
    /\ threadsShouldExit' = TRUE
    /\ mainPc' = "stop"
    /\ stopIndex' = 0
    /\ UNCHANGED <<call, numThreads, writeCostThreshold, disableInMemoryCleaning,
                   threads, threadCnt, doWorkSleepTicks, workers, nextTid,
                   lastCall, logVars>>

\* A join that does not wait for the thread.
JoinWithoutWaiting(t) == TRUE

\* Whether threads[i]->join() returns.
Joinable(t) == workers[t].pc = "exited"

\* One iteration of stop()'s loop: join, delete, threads[i] = NULL.  The
\* record of the thread stays in `workers`: the loop only waits for it.
stopJoin ==
    /\ mainPc = "stop"
    /\ ~aborted
    /\ stopIndex < numThreads
    /\ IF threads[stopIndex] # NULL
       THEN /\ Joinable(threads[stopIndex])
            /\ threads' = [threads EXCEPT ![stopIndex] = NULL]
       ELSE UNCHANGED threads
    /\ stopIndex' = stopIndex + 1
    /\ UNCHANGED <<call, numThreads, writeCostThreshold, disableInMemoryCleaning,
                   threadsShouldExit, threadCnt, doWorkSleepTicks, workers,
                   nextTid, mainPc, lastCall, logVars>>

\* The end of stop(): threadsShouldExit = false.
stopEnd ==
    /\ mainPc = "stop"
    /\ ~aborted
    /\ stopIndex = numThreads
    /\ threadsShouldExit' = FALSE
    /\ mainPc' = "idle"
    /\ lastCall' = "stop"
    /\ UNCHANGED <<call, numThreads, writeCostThreshold, disableInMemoryCleaning,
                   threads, threadCnt, doWorkSleepTicks, workers, nextTid,
                   stopIndex, logVars>>


(***************************************************************************)
(* Segments (specification 3 and 4.3).  An entry is [id, len, ts, type];   *)
(* a reference is [seg, off]: the slot of the segment and the entry's      *)
(* position in it.                                                         *)
(***************************************************************************)
MaxSlots == 6
AllSlots == 1 .. MaxSlots
NoRef == [seg |-> NULL, off |-> 0]

RECURSIVE SumLen(_)
SumLen(es) == IF es = <<>> THEN 0 ELSE Head(es).len + SumLen(Tail(es))

Range(seq) == {seq[i] : i \in DOMAIN seq}

getAppendedLength(S, s) == HeaderLen + SumLen(S[s].entries)
getSegletsAllocated(s) == segs[s].alloc
getSegletsInUse(S, s) == (getAppendedLength(S, s) + segletSize - 1) \div segletSize
getMemoryUtilization(s) ==
    (100 * segs[s].liveBytes) \div (segs[s].alloc * segletSize)
getDiskUtilization(s) == (100 * segs[s].liveBytes) \div segmentSize
getEntryCount(s, type) ==
    Cardinality({i \in DOMAIN segs[s].entries : segs[s].entries[i].type = type})

\* EntryHandlers' liveness check of the entry at reference r.
IsLive(e, r) ==
    IF e.type = "tomb" THEN e.id \notin tombDead ELSE registry[e.id] = r

\* A segment as allocSideSegment returns it: empty, every seglet allocated.
FreshSegment(creation, lastCompaction) ==
    [used |-> TRUE, alloc |-> segletsPerSegment, liveBytes |-> 0, entries |-> <<>>,
     closed |-> FALSE, syncedLength |-> 0, creationTimestamp |-> creation,
     lastCompactionTimestamp |-> lastCompaction]

\* A slot that holds no segment.
FreeSeg ==
    [used |-> FALSE, alloc |-> 0, liveBytes |-> 0, entries |-> <<>>,
     closed |-> FALSE, syncedLength |-> 0, creationTimestamp |-> 0,
     lastCompactionTimestamp |-> 0]

\* A side segment that comes with `seglets` seglets.
SideSegment(creation, lastCompaction, seglets) ==
    [FreshSegment(creation, lastCompaction) EXCEPT !.alloc = seglets]

\* The seglets allocSideSegment hands a side segment out with.
FullSideSegments == {segletsPerSegment}

FreeSlots == {s \in AllSlots : ~segs[s].used}
\* The slot allocSideSegment hands out; the call blocks while there is none.
AllocSlot == CHOOSE s \in FreeSlots : \A r \in FreeSlots : s <= r

RECURSIVE SetToSeq(_)
SetToSeq(S) ==
    IF S = {} THEN <<>>
    ELSE LET x == CHOOSE y \in S : \A z \in S : y <= z
         IN <<x>> \o SetToSeq(S \ {x})

\* A selection that leaves the segment it returns among the candidates.
leftAmongCandidates(seq, i) == seq

\* candidates[i] = candidates.back(); candidates.pop_back().
SwapRemove(seq, i) ==
    [k \in 1 .. (Len(seq) - 1) |-> IF k = i THEN seq[Len(seq)] ELSE seq[k]]

(***************************************************************************)
(* getSegmentToCompact.                                                    *)
(***************************************************************************)
\* The seglets needed for seglets of `size` bytes, with every division
\* rounding down.
segletsNeededTruncated(liveBytes, size) ==
    (((100 * liveBytes) % UINT32) \div size) \div MAX_CLEANABLE_MEMORY_UTILIZATION

\* uint32_t segletsNeeded of a segment of `liveBytes` live bytes, for seglets
\* of `size` bytes.
segletsNeededFor(liveBytes, size) ==
    (((100 * ((liveBytes + size - 1) % UINT32)) % UINT32) \div size)
        \div MAX_CLEANABLE_MEMORY_UTILIZATION

\* The seglets needed, without the rounding up to whole seglets.
segletsNeededRoundedDown(liveBytes) ==
    (((100 * liveBytes) % UINT32) \div segletSize)
        \div MAX_CLEANABLE_MEMORY_UTILIZATION

segletsNeeded(liveBytes) == segletsNeededFor(liveBytes, segletSize)

\* A scan that keeps the first candidate with seglets to give up.
firstDelta(delta, bestDelta) == bestDelta = 0

\* delta > bestDelta of the first loop.
betterDelta(delta, bestDelta) == delta > bestDelta

\* The first loop: <<bestIndex, bestDelta>>, bestIndex 0 standing for -1.
RECURSIVE DeltaScan(_, _, _)
DeltaScan(i, bestIndex, bestDelta) ==
    IF i > Len(candidates) THEN <<bestIndex, bestDelta>>
    ELSE LET needed == segletsNeeded(segs[candidates[i]].liveBytes)
             allocated == getSegletsAllocated(candidates[i])
             delta == (allocated - needed) % UINT32
         IN IF needed < allocated /\ betterDelta(delta, bestDelta)
            THEN DeltaScan(i + 1, i, delta)
            ELSE DeltaScan(i + 1, bestIndex, bestDelta)

\* A scan that keeps the first candidate of some goodness.
firstGoodness(goodness, bestGoodness) == bestGoodness = 0 /\ goodness > 0
\* A scan that takes a candidate of no goodness as well.
atLeastAsGood(goodness, bestGoodness) == goodness >= bestGoodness

\* goodness > bestGoodness of the second loop.
betterGoodness(goodness, bestGoodness) == goodness > bestGoodness

\* The second loop: the candidate of the greatest tombstone goodness.
RECURSIVE GoodnessScan(_, _, _)
GoodnessScan(i, bestIndex, bestGoodness) ==
    IF i > Len(candidates) THEN bestIndex
    ELSE LET tombstoneCount == getEntryCount(candidates[i], "tomb")
             timeSinceLastCompaction ==
                 (now - segs[candidates[i]].lastCompactionTimestamp) % UINT32
             goodness == tombstoneCount * timeSinceLastCompaction
         IN IF betterGoodness(goodness, bestGoodness)
            THEN GoodnessScan(i + 1, i, goodness)
            ELSE GoodnessScan(i + 1, bestIndex, bestGoodness)

\* A selection that reports one seglet more to free than the delta.
getSegmentToCompactOneSegletMore ==
    LET d == DeltaScan(1, 0, 0)
    IN IF d[1] # 0
       THEN [index |-> d[1], freeable |-> d[2] + 1, fallback |-> FALSE]
       ELSE [index |-> GoodnessScan(1, 0, 0), freeable |-> 0, fallback |-> TRUE]

\* [index, freeable, fallback]: index 0 when NULL is returned.
getSegmentToCompact ==
    LET d == DeltaScan(1, 0, 0)
    IN IF d[1] # 0
       THEN [index |-> d[1], freeable |-> d[2], fallback |-> FALSE]
       ELSE [index |-> GoodnessScan(1, 0, 0), freeable |-> 0, fallback |-> TRUE]

(***************************************************************************)
(* getSegmentsToClean.                                                     *)
(***************************************************************************)
\* -1UL, as far as the model's integers go.
UINT64MAX == 2147483647

\* A comparer that takes the creation timestamp as it finds it.
timestampAsItIs(timestamp, comparerNow) == timestamp

\* if (timestamp > now) timestamp = now.
timestampNotAfter(timestamp, comparerNow) ==
    IF timestamp > comparerNow THEN comparerNow ELSE timestamp

\* CostBenefitComparer::costBenefit(s) of a comparer constructed at
\* `comparerNow`.
costBenefitAt(s, comparerNow) ==
    LET utilization == getDiskUtilization(s)
        timestamp == timestampNotAfter(segs[s].creationTimestamp, comparerNow)
        age == comparerNow - timestamp
    IN IF utilization = 0 THEN UINT64MAX
       ELSE ((100 - utilization) * age) \div utilization

\* The same of the comparer that a sort constructs and uses in one step.
costBenefit(s) == costBenefitAt(s, now)

\* The outcomes of std::sort with CostBenefitComparer: the orders of the
\* candidates with no segment before one of a greater cost-benefit.
Orders(seq) ==
    {p \in [DOMAIN seq -> Range(seq)] : \A x \in Range(seq) :
        Cardinality({i \in DOMAIN seq : p[i] = x}) =
        Cardinality({i \in DOMAIN seq : seq[i] = x})}

sortSegmentsByCostBenefit(seq) ==
    {p \in Orders(seq) : \A i, j \in DOMAIN p :
        i < j => costBenefit(p[i]) >= costBenefit(p[j])}

\* A selection that passes no candidate over.
cleanableWhateverItsUtilization(utilization) == FALSE

\* if (utilization > MAX_CLEANABLE_MEMORY_UTILIZATION) continue.
tooFullToClean(utilization) == utilization > MAX_CLEANABLE_MEMORY_UTILIZATION

\* A selection that never stops for the live bytes it has taken on.
noMaximumLiveBytes(totalLiveBytes, liveBytes) == FALSE

\* if ((totalLiveBytes + liveBytes) > maximumLiveBytes) break.
overMaximumLiveBytes(totalLiveBytes, liveBytes) ==
    totalLiveBytes + liveBytes > MAX_LIVE_SEGMENTS_PER_DISK_PASS * segmentSize

\* A selection loop that passes over the candidate that would take it over
\* the maximum and goes on with those that follow.
RECURSIVE CleanScanPassingOver(_, _, _, _)
CleanScanPassingOver(sorted, i, totalLiveBytes, chosenIndices) ==
    IF i > Len(sorted) THEN chosenIndices
    ELSE IF tooFullToClean(getMemoryUtilization(sorted[i]))
            \/ overMaximumLiveBytes(totalLiveBytes, segs[sorted[i]].liveBytes)
    THEN CleanScanPassingOver(sorted, i + 1, totalLiveBytes, chosenIndices)
    ELSE CleanScanPassingOver(sorted, i + 1,
                              totalLiveBytes + segs[sorted[i]].liveBytes,
                              Append(chosenIndices, i))

\* The selection loop over the sorted candidates: the chosen indices.
RECURSIVE CleanScan(_, _, _, _)
CleanScan(sorted, i, totalLiveBytes, chosenIndices) ==
    IF i > Len(sorted) THEN chosenIndices
    ELSE IF tooFullToClean(getMemoryUtilization(sorted[i]))
    THEN CleanScan(sorted, i + 1, totalLiveBytes, chosenIndices)
    ELSE IF overMaximumLiveBytes(totalLiveBytes, segs[sorted[i]].liveBytes)
    THEN chosenIndices
    ELSE CleanScan(sorted, i + 1, totalLiveBytes + segs[sorted[i]].liveBytes,
                   Append(chosenIndices, i))

\* reverse_foreach over the chosen indices: swap with the back and pop.
RECURSIVE RemoveChosen(_, _)
RemoveChosen(seq, chosenIndices) ==
    IF chosenIndices = <<>> THEN seq
    ELSE RemoveChosen(SwapRemove(seq, chosenIndices[Len(chosenIndices)]),
                      SubSeq(chosenIndices, 1, Len(chosenIndices) - 1))

(***************************************************************************)
(* getSortedEntries: Entry(segment, offset, timestamp) of every entry of   *)
(* the segments, in one of the orders std::sort may leave them in.         *)
(***************************************************************************)
RECURSIVE ExtractEntries(_)
ExtractEntries(segments) ==
    IF segments = <<>> THEN <<>>
    ELSE [k \in DOMAIN segs[Head(segments)].entries |->
             [segment |-> Head(segments), offset |-> k,
              timestamp |-> segs[Head(segments)].entries[k].ts]]
         \o ExtractEntries(Tail(segments))

\* TimestampComparer of LogCleaner.h: the order of the sort (specification
\* 4.6.3, ascending).
TimestampComparer(a, b) == a.timestamp < b.timestamp

\* A vector of entries that is left as it was extracted.
entriesLeftUnsorted(seq) == {seq}

sortEntriesByTimestamp(seq) ==
    {p \in Orders(seq) : \A i, j \in DOMAIN p :
        i < j => ~TimestampComparer(p[j], p[i])}


(***************************************************************************)
(* cleanerThreadEntry and doWork.                                          *)
(***************************************************************************)
configVars == <<numThreads, writeCostThreshold, disableInMemoryCleaning>>
poolVars == <<threads, threadsShouldExit, nextTid, mainPc, stopIndex, lastCall>>

SetWorker(t, w) == workers' = [workers EXCEPT ![t] = w]

\* state.threadNumber = __sync_fetch_and_add(&threadCnt, 1).
threadEntry(t) ==
    /\ workers[t].pc = "entry"
    /\ ~aborted
    /\ SetWorker(t, [workers[t] EXCEPT !.pc = "top", !.threadNumber = threadCnt])
    /\ threadCnt' = (threadCnt + 1) % UINT32
    /\ UNCHANGED <<call, configVars, poolVars, doWorkSleepTicks, logVars>>

\* A thread that looks at threadsShouldExit at every step it takes.
examinesExitFlagAnywhere(pc) == pc \notin {"entry", "exited"}

\* Where a thread looks at threadsShouldExit: at the top of its loop, between
\* two calls of doWork.
examinesExitFlag(pc) == pc = "top"

\* The loop's test: threadsShouldExit is set, and the thread leaves; its
\* locals go with its stack.
threadExit(t) ==
    /\ examinesExitFlag(workers[t].pc)
    /\ ~aborted
    /\ threadsShouldExit
    /\ SetWorker(t, [NewWorker EXCEPT !.pc = "exited"])
    /\ UNCHANGED <<call, configVars, poolVars, threadCnt, doWorkSleepTicks, logVars>>

\* The loop's test: threadsShouldExit is clear, and doWork is called.
threadLoop(t) ==
    /\ workers[t].pc = "top"
    /\ ~aborted
    /\ ~threadsShouldExit
    /\ doWorkSleepTicks < MaxTicks
    /\ totalRuns + totalSegmentsCompacted < MaxPasses
    /\ SetWorker(t, [workers[t] EXCEPT !.pc = "doWork"])
    /\ UNCHANGED <<call, configVars, poolVars, threadCnt, doWorkSleepTicks, logVars>>

\* What doWork runs, from its five locals: "disk", "memory" or "none".
doWorkRun(threadNumber, memUtil, lowOnMemory, notKeepingUp, lowOnDiskSpace) ==
    IF ~(lowOnMemory \/ lowOnDiskSpace) THEN "none"
    ELSE IF threadNumber = 0
    THEN (IF lowOnDiskSpace \/ notKeepingUp THEN "disk" ELSE "memory")
    ELSE IF memUtil >= Min(99, 90 + 2 * threadNumber) THEN "memory"
    ELSE "none"

\* doWork up to its call of doDiskCleaning or doMemoryCleaning: the refresh
\* of the candidates, three reads of the memory utilization and one of the
\* disk utilization, and the choice.  `mems` and `disks` are the utilizations
\* the allocator and the segment manager may report.
doWorkBegin(t, mems, disks) ==
    /\ workers[t].pc = "doWork"
    /\ ~aborted
    /\ candidates' = candidates \o SetToSeq(cleanable)
    /\ cleanable' = {}
    /\ \E m1, m2, m3 \in mems, d \in disks :
         LET lowOnMemory == m2 >= MIN_MEMORY_UTILIZATION
             notKeepingUp == m3 >= MEMORY_DEPLETED_UTILIZATION
             lowOnDiskSpace == d >= MIN_DISK_UTILIZATION
             run == doWorkRun(workers[t].threadNumber, m1, lowOnMemory,
                              notKeepingUp, lowOnDiskSpace)
         IN SetWorker(t, [workers[t] EXCEPT
                 !.pc = IF run = "none" THEN "end" ELSE run,
                 !.fresh = TRUE, !.memUtil = m1,
                 !.lowOnMemory = lowOnMemory, !.notKeepingUp = notKeepingUp,
                 !.lowOnDiskSpace = lowOnDiskSpace,
                 !.haveWorkToDo = (run # "none"), !.ran = run,
                 !.worked = FALSE, !.slept = FALSE])
    /\ handover' = [handover EXCEPT ![t] = NoHandover]
    /\ UNCHANGED <<call, configVars, poolVars, threadCnt, doWorkSleepTicks, now, segs,
                   registry, tombDead, pass, aborted, totalRuns, onDiskMetrics,
                   totalSegmentsCompacted>>

\* The locals of doWork that a pass leaves as they are.
Stale(w) == [w EXCEPT !.fresh = FALSE, !.memUtil = 0, !.lowOnMemory = FALSE,
                      !.notKeepingUp = FALSE, !.lowOnDiskSpace = FALSE]

\* Whether doWork's last block sleeps.
doWorkSleeps(haveWorkToDo) == ~haveWorkToDo

\* The end of doWork: usleep(POLL_USEC + r) when there was no work to do.
doWorkEnd(t) ==
    /\ workers[t].pc = "end"
    /\ ~aborted
    /\ IF doWorkSleeps(workers[t].haveWorkToDo)
       THEN /\ doWorkSleepTicks' = doWorkSleepTicks + 1
            /\ SetWorker(t, [Stale(workers[t]) EXCEPT !.pc = "top", !.slept = TRUE])
       ELSE /\ doWorkSleepTicks' = doWorkSleepTicks
            /\ SetWorker(t, [Stale(workers[t]) EXCEPT !.pc = "top"])
    /\ UNCHANGED <<call, configVars, poolVars, threadCnt, logVars>>


(***************************************************************************)
(* relocateEntry (specification 4.6.4) and the steps on a survivor.        *)
(***************************************************************************)
\* segment->getReference(offset).
getReference(segment, offset) == [seg |-> segment, off |-> offset]

\* Whether survivor.append(type, entryBytes) finds the space.
Fits(S, survivor, e) ==
    /\ survivor # NULL
    /\ ~S[survivor].closed
    /\ getAppendedLength(S, survivor) + e.len <= S[survivor].alloc * segletSize

\* A relocateEntry that does not ask whether the entry is live.
relocateEntryWhetherLiveOrNot(S, e, reference, survivor) ==
    IF ~Fits(S, survivor, e) THEN "RELOCATION_FAILED" ELSE "RELOCATED"

relocateEntry(S, e, reference, survivor) ==
    IF ~IsLive(e, reference) THEN "NOT_NEEDED"
    ELSE IF ~Fits(S, survivor, e) THEN "RELOCATION_FAILED"
    ELSE "RELOCATED"

\* The survivor after the append of a RELOCATED entry.
AppendEntry(S, survivor, e) ==
    [S EXCEPT ![survivor].entries = Append(@, e)]

\* EntryHandlers' relocated callback: the registry after a RELOCATED entry.
Relocated(R, S, e, survivor) ==
    IF e.type = "tomb" THEN R
    ELSE [R EXCEPT ![e.id] = getReference(survivor, Len(S[survivor].entries) + 1)]

AddLiveBytes(S, survivor, n) == [S EXCEPT ![survivor].liveBytes = @ + n]

\* closeSurvivor: close, start the replication, free the unused seglets.
closeSurvivor(S, survivor) ==
    [S EXCEPT ![survivor].closed = TRUE,
              ![survivor].alloc = @ - (@ - getSegletsInUse(S, survivor))]

(***************************************************************************)
(* doMemoryCleaning.                                                       *)
(***************************************************************************)
SetPass(t, p) == pass' = [pass EXCEPT ![t] = p]

\* The start of doMemoryCleaning: the early returns, getSegmentToCompact and
\* the survivor's allocation.  `sideSeglets` are the numbers of seglets the
\* segment manager may hand the survivor out with.
memSelectFrom(t, sideSeglets) ==
    /\ workers[t].pc = "memory"
    /\ ~aborted
    /\ LET sel == getSegmentToCompact
       IN IF disableInMemoryCleaning \/ sel.index = 0
          THEN /\ SetWorker(t, [Stale(workers[t]) EXCEPT !.pc = "end"])
               /\ UNCHANGED <<candidates, segs, pass>>
          ELSE /\ FreeSlots # {}
               /\ LET segment == candidates[sel.index]
                      survivor == AllocSlot
                  IN /\ candidates' = SwapRemove(candidates, sel.index)
                     /\ \E seglets \in sideSeglets :
                          segs' = [segs EXCEPT ![survivor] =
                            SideSegment(segs[segment].creationTimestamp, now,
                                        seglets)]
                     /\ SetPass(t, [NoPass EXCEPT !.segment = segment,
                            !.survivor = survivor,
                            !.freeableSeglets = sel.freeable,
                            !.fallback = sel.fallback])
               /\ SetWorker(t, [Stale(workers[t]) EXCEPT !.pc = "m_reloc"])
    /\ UNCHANGED <<call, configVars, poolVars, threadCnt, doWorkSleepTicks, now,
                   registry, tombDead, cleanable, handover, aborted, totalRuns, onDiskMetrics,
                   totalSegmentsCompacted>>

memSelect(t) == memSelectFrom(t, FullSideSegments)

\* A loop that stops one entry early.
isDoneOneEarly(segment, idx) == idx >= Len(segs[segment].entries)

\* SegmentIterator::isDone of the loop over the segment's entries.
isDone(segment, idx) == idx > Len(segs[segment].entries)

\* A cleaner that goes on to the next entry when one did not fit.
goesOnToNextEntry(s) == FALSE

\* if (s == RELOCATION_FAILED) throw FatalError(HERE, "Entry didn't fit ...").
throwsFatalError(s) == s = "RELOCATION_FAILED"

\* A thread that an exception stops by itself: it leaves as it does at
\* stop(), and the process runs on.
threadStopping(t) ==
    /\ SetWorker(t, [NewWorker EXCEPT !.pc = "exited"])
    /\ UNCHANGED aborted

\* catch (const Exception& e) { DIE("Fatal error in cleaner thread: ...") }:
\* the exception that leaves doWork in thread t ends the process.
DIE(t) ==
    /\ aborted' = TRUE
    /\ UNCHANGED workers

\* One iteration of the loop over the segment's entries.
memRelocate(t) ==
    /\ workers[t].pc = "m_reloc"
    /\ ~aborted
    /\ ~isDone(pass[t].segment, pass[t].idx)
    /\ LET p == pass[t]
           e == segs[p.segment].entries[p.idx]
           reference == getReference(p.segment, p.idx)
           s == relocateEntry(segs, e, reference, p.survivor)
       IN CASE throwsFatalError(s) ->
                 \* throw FatalError: cleanerThreadEntry catches it.
                 /\ DIE(t)
                 /\ UNCHANGED <<segs, registry, pass>>
            [] s = "RELOCATED" ->
                 /\ segs' = AppendEntry(segs, p.survivor, e)
                 /\ registry' = Relocated(registry, segs, e, p.survivor)
                 /\ SetPass(t, [p EXCEPT !.idx = @ + 1,
                                         !.bytesAppended = @ + e.len])
                 /\ UNCHANGED <<aborted, workers>>
            [] OTHER ->
                 /\ SetPass(t, [p EXCEPT !.idx = @ + 1])
                 /\ UNCHANGED <<segs, registry, aborted, workers>>
    /\ UNCHANGED <<call, configVars, poolVars, threadCnt, doWorkSleepTicks,
                   now, tombDead, cleanable, candidates, handover, totalRuns, onDiskMetrics,
                   totalSegmentsCompacted>>

\* A compaction that frees the seglets getSegmentToCompact allowed and keeps
\* the rest of the survivor.
segletsToFreeOfTheSourceOnly(survivorAllocated, segmentAllocated, freeableSeglets) ==
    freeableSeglets

\* uint32_t segletsToFree.
segletsToFree(survivorAllocated, segmentAllocated, freeableSeglets) ==
    (survivorAllocated - segmentAllocated + freeableSeglets) % UINT32

\* Segment::freeUnusedSeglets (specification 4.3): refuses more than the
\* seglets that are allocated and not in use.
canFreeUnusedSeglets(S, s, n) == n <= S[s].alloc - getSegletsInUse(S, s)

\* The references of the registry into the segments of `old`.
StaleRefs(R, old) == {id \in DOMAIN R : R[id].seg \in old}

\* After the loop: liveBytes, the seglets freed, compactionComplete.
memComplete(t) ==
    /\ workers[t].pc = "m_reloc"
    /\ ~aborted
    /\ isDone(pass[t].segment, pass[t].idx)
    /\ LET p == pass[t]
           S1 == AddLiveBytes(segs, p.survivor, p.bytesAppended)
           n == segletsToFree(S1[p.survivor].alloc, S1[p.segment].alloc,
                              p.freeableSeglets)
           S2 == [S1 EXCEPT ![p.survivor].closed = TRUE]
       IN IF ~canFreeUnusedSeglets(S2, p.survivor, n)
          THEN \* assert(r)
               /\ aborted' = TRUE
               /\ UNCHANGED <<segs, cleanable, pass, handover, workers,
                              totalSegmentsCompacted>>
          ELSE /\ aborted' = FALSE
               /\ totalSegmentsCompacted' = totalSegmentsCompacted + 1
               \* compactionComplete(segment, survivor)
               /\ segs' = [S2 EXCEPT ![p.survivor].alloc = @ - n,
                                     ![p.survivor].lastCompactionTimestamp = now,
                                     ![p.segment] = FreeSeg]
               /\ cleanable' = cleanable \cup {p.survivor}
               /\ handover' = [handover EXCEPT ![t] =
                      [kind |-> "memory", old |-> {p.segment},
                       survivors |-> <<p.survivor>>,
                       stale |-> StaleRefs(registry, {p.segment}),
                       unsynced |-> {},
                       fallback |-> p.fallback,
                       stopping |-> threadsShouldExit,
                       segletsBefore |-> segs[p.segment].alloc,
                       segletsAfter |-> segs'[p.survivor].alloc,
                       liveBytes |-> segs'[p.survivor].liveBytes]]
               /\ SetPass(t, NoPass)
               /\ SetWorker(t, [workers[t] EXCEPT !.pc = "end", !.worked = TRUE])
    /\ UNCHANGED <<call, configVars, poolVars, threadCnt, doWorkSleepTicks, now,
                   registry, tombDead, candidates, totalRuns, onDiskMetrics>>


(***************************************************************************)
(* doDiskCleaning.                                                         *)
(***************************************************************************)
RECURSIVE SumAlloc(_, _)
SumAlloc(S, segments) ==
    IF segments = <<>> THEN 0
    ELSE S[Head(segments)].alloc + SumAlloc(S, Tail(segments))

RECURSIVE SumLive(_, _)
SumLive(S, segments) ==
    IF segments = <<>> THEN 0
    ELSE S[Head(segments)].liveBytes + SumLive(S, Tail(segments))

\* getSegmentsToClean, the return when nothing was chosen, getSortedEntries.
diskSelect(t) ==
    /\ workers[t].pc = "disk"
    /\ ~aborted
    /\ \E sorted \in sortSegmentsByCostBenefit(candidates) :
         LET chosenIndices == CleanScan(sorted, 1, 0, <<>>)
             segmentsToClean == [k \in DOMAIN chosenIndices |-> sorted[chosenIndices[k]]]
         IN /\ candidates' = RemoveChosen(sorted, chosenIndices)
            /\ IF segmentsToClean = <<>>
               THEN /\ SetWorker(t, [Stale(workers[t]) EXCEPT !.pc = "end"])
                    /\ UNCHANGED pass
               ELSE /\ SetWorker(t, [Stale(workers[t]) EXCEPT !.pc = "d_sample"])
                    /\ \E entries \in sortEntriesByTimestamp(ExtractEntries(segmentsToClean)) :
                         SetPass(t, [NoPass EXCEPT !.segmentsToClean = segmentsToClean,
                                                   !.entries = entries])
    /\ UNCHANGED <<call, configVars, poolVars, threadCnt, doWorkSleepTicks, now, segs,
                   registry, tombDead, cleanable, handover, aborted, totalRuns, onDiskMetrics,
                   totalSegmentsCompacted>>

\* The loop that sums maxLiveBytes and segletsBefore.
diskSample(t) ==
    /\ workers[t].pc = "d_sample"
    /\ ~aborted
    /\ SetPass(t, [pass[t] EXCEPT
           !.maxLiveBytes = SumLive(segs, pass[t].segmentsToClean),
           !.segletsBefore = SumAlloc(segs, pass[t].segmentsToClean) % UINT32])
    /\ SetWorker(t, [workers[t] EXCEPT !.pc = "d_reloc"])
    /\ UNCHANGED <<call, configVars, poolVars, threadCnt, doWorkSleepTicks, now, segs,
                   registry, tombDead, cleanable, candidates, handover, aborted,
                   totalRuns, onDiskMetrics, totalSegmentsCompacted>>

\* A count of the survivor's bytes from its start, header included, at
\* every entry.
ScannedFromTheStartOfTheSurvivor(S, p) ==
    LET newSurvivorBytesAppended ==
            IF p.survivor # NULL THEN getAppendedLength(S, p.survivor)
            ELSE p.currentSurvivorBytesAppended
    IN [p EXCEPT !.idx = @ + 1, !.retry = FALSE,
                 !.entryBytesAppended = @ + newSurvivorBytesAppended,
                 !.currentSurvivorBytesAppended = newSurvivorBytesAppended]

\* The locals after one entry: entryBytesAppended follows the survivor.
Scanned(S, p) ==
    LET newSurvivorBytesAppended ==
            IF p.survivor # NULL THEN getAppendedLength(S, p.survivor)
            ELSE p.currentSurvivorBytesAppended
    IN [p EXCEPT !.idx = @ + 1, !.retry = FALSE,
                 !.entryBytesAppended = (@ + newSurvivorBytesAppended
                                           - p.currentSurvivorBytesAppended),
                 !.currentSurvivorBytesAppended = newSurvivorBytesAppended]

\* A loop that allocates a survivor for every entry it does not relocate.
allocatesSurvivorUnlessRelocated(s) == s # "RELOCATED"

\* if (s == RELOCATION_FAILED): the next survivor is allocated.
allocatesSurvivor(s) == s = "RELOCATION_FAILED"

\* A count that is carried over to the next survivor.
bytesAppendedCarriedOver(p) == p.bytesAppended

\* bytesAppended = 0, once it is added to the liveBytes of the full survivor.
bytesAppendedOnceCredited(p) == IF p.survivor # NULL THEN 0 ELSE p.bytesAppended

\* A loop that goes on to the next entry once the new survivor is there.
RolledOverToTheNextEntry(S, p, survivor) ==
    [p EXCEPT !.idx = @ + 1,
              !.survivor = survivor,
              !.survivors = Append(@, survivor),
              !.bytesAppended = bytesAppendedOnceCredited(p),
              !.currentSurvivorBytesAppended = getAppendedLength(S, survivor)]

\* The locals once the next survivor is allocated: it is the current one and
\* the last of outSurvivors, and the same entry is relocated again.
RolledOver(S, p, survivor) ==
    [p EXCEPT !.retry = TRUE,
              !.survivor = survivor,
              !.survivors = Append(@, survivor),
              !.bytesAppended = bytesAppendedOnceCredited(p),
              !.currentSurvivorBytesAppended = getAppendedLength(S, survivor)]

\* One iteration of relocateLiveEntries' loop over the sorted entries, up to
\* the allocation of the next survivor when the entry did not fit.
diskRelocateFrom(t, sideSeglets) ==
    /\ workers[t].pc = "d_reloc"
    /\ ~aborted
    /\ ~pass[t].retry
    /\ pass[t].idx <= Len(pass[t].entries)
    /\ LET p == pass[t]
           entry == p.entries[p.idx]
           e == segs[entry.segment].entries[entry.offset]
           reference == getReference(entry.segment, entry.offset)
           s == relocateEntry(segs, e, reference, p.survivor)
       IN CASE allocatesSurvivor(s) ->
                 /\ FreeSlots # {}
                 /\ LET S1 == IF p.survivor # NULL
                              THEN closeSurvivor(
                                     AddLiveBytes(segs, p.survivor, p.bytesAppended),
                                     p.survivor)
                              ELSE segs
                        survivor == AllocSlot
                    IN /\ \E seglets \in sideSeglets :
                            segs' = [S1 EXCEPT ![survivor] =
                                        SideSegment(now, now, seglets)]
                       /\ SetPass(t, RolledOver(segs', p, survivor))
                 /\ UNCHANGED registry
            [] s = "RELOCATED" ->
                 /\ segs' = AppendEntry(segs, p.survivor, e)
                 /\ registry' = Relocated(registry, segs, e, p.survivor)
                 /\ SetPass(t, Scanned(segs', [p EXCEPT !.bytesAppended = @ + e.len]))
            [] OTHER ->
                 /\ SetPass(t, Scanned(segs, p))
                 /\ UNCHANGED <<segs, registry>>
    /\ UNCHANGED <<call, configVars, poolVars, threadCnt, doWorkSleepTicks, workers,
                   now, tombDead, cleanable, candidates, handover, aborted,
                   totalRuns, onDiskMetrics, totalSegmentsCompacted>>

diskRelocate(t) == diskRelocateFrom(t, FullSideSegments)

\* The second relocateEntry of an iteration, into the survivor just allocated.
diskRetry(t) ==
    /\ workers[t].pc = "d_reloc"
    /\ ~aborted
    /\ pass[t].retry
    /\ LET p == pass[t]
           entry == p.entries[p.idx]
           e == segs[entry.segment].entries[entry.offset]
           reference == getReference(entry.segment, entry.offset)
           s == relocateEntry(segs, e, reference, p.survivor)
       IN CASE throwsFatalError(s) ->
                 \* throw FatalError: cleanerThreadEntry catches it.
                 /\ DIE(t)
                 /\ UNCHANGED <<segs, registry, pass>>
            [] s = "RELOCATED" ->
                 /\ segs' = AppendEntry(segs, p.survivor, e)
                 /\ registry' = Relocated(registry, segs, e, p.survivor)
                 /\ SetPass(t, Scanned(segs', [p EXCEPT !.bytesAppended = @ + e.len]))
                 /\ UNCHANGED <<aborted, workers>>
            [] OTHER ->
                 /\ SetPass(t, Scanned(segs, p))
                 /\ UNCHANGED <<segs, registry, aborted, workers>>
    /\ UNCHANGED <<call, configVars, poolVars, threadCnt, doWorkSleepTicks,
                   now, tombDead, cleanable, candidates, handover, totalRuns, onDiskMetrics,
                   totalSegmentsCompacted>>

\* After the loop: the last survivor's liveBytes and closeSurvivor.
diskCloseLast(t) ==
    /\ workers[t].pc = "d_reloc"
    /\ ~aborted
    /\ ~pass[t].retry
    /\ pass[t].idx > Len(pass[t].entries)
    /\ segs' = IF pass[t].survivor # NULL
               THEN closeSurvivor(
                      AddLiveBytes(segs, pass[t].survivor, pass[t].bytesAppended),
                      pass[t].survivor)
               ELSE segs
    /\ SetWorker(t, [workers[t] EXCEPT !.pc = "d_sync"])
    /\ UNCHANGED <<call, configVars, poolVars, threadCnt, doWorkSleepTicks, now,
                   registry, tombDead, cleanable, candidates, pass, handover,
                   aborted, totalRuns, onDiskMetrics, totalSegmentsCompacted>>

\* A loop of sync calls that leaves the last survivor out.
allButTheLast(outSurvivors) == SubSeq(outSurvivors, 1, Len(outSurvivors) - 1)

\* The survivors the loop of sync calls goes over.
survivorsToSync(outSurvivors) == outSurvivors

\* survivor->replicatedSegment->sync(survivor->getAppendedLength()) of one
\* survivor: the call returns when the backups hold the bytes.
diskSync(t) ==
    /\ workers[t].pc = "d_sync"
    /\ ~aborted
    /\ pass[t].syncIdx <= Len(survivorsToSync(pass[t].survivors))
    /\ LET survivor == survivorsToSync(pass[t].survivors)[pass[t].syncIdx]
       IN segs' = [segs EXCEPT ![survivor].syncedLength =
                                   getAppendedLength(segs, survivor)]
    /\ SetPass(t, [pass[t] EXCEPT !.syncIdx = @ + 1])
    /\ UNCHANGED <<call, configVars, poolVars, threadCnt, doWorkSleepTicks, workers,
                   now, registry, tombDead, cleanable, candidates, handover,
                   aborted, totalRuns, onDiskMetrics, totalSegmentsCompacted>>

\* A build without the assertion on the seglets.
noAssertSeglets(segletsBefore, segletsAfter) == TRUE
\* A build without the assertion on the segments.
noAssertSegments(segmentsBefore, segmentsAfter) == TRUE

\* assert(segletsBefore >= segletsAfter).
assertSeglets(segletsBefore, segletsAfter) == segletsBefore >= segletsAfter
\* assert(segmentsBefore >= segmentsAfter).
assertSegments(segmentsBefore, segmentsAfter) == segmentsBefore >= segmentsAfter
\* assert(entryBytesAppended <= maxLiveBytes).
assertBytes(entryBytesAppended, maxLiveBytes) == entryBytesAppended <= maxLiveBytes

\* Counters that take the survivors for segments freed.
AccountedWithoutSurvivors(metrics, counts) ==
    [metrics EXCEPT
       !.totalMemoryBytesFreed = @ + counts.segletsBefore * segletSize,
       !.totalDiskBytesFreed = @ + counts.segmentsBefore * segmentSize,
       !.totalSegmentsCleaned = @ + counts.segmentsBefore,
       !.totalSurvivorsCreated = @ + counts.segmentsAfter]

\* onDiskMetrics after the pass whose locals are `counts`; the two products
\* are of 32-bit operands.
Accounted(metrics, counts) ==
    LET memoryBytesFreed ==
            ((counts.segletsBefore - counts.segletsAfter) * segletSize) % UINT32
        diskBytesFreed ==
            ((counts.segmentsBefore - counts.segmentsAfter) * segmentSize) % UINT32
    IN [metrics EXCEPT
          !.totalMemoryBytesFreed = @ + memoryBytesFreed,
          !.totalDiskBytesFreed = @ + diskBytesFreed,
          !.totalSegmentsCleaned = @ + counts.segmentsBefore,
          !.totalSurvivorsCreated = @ + counts.segmentsAfter]

\* The rest of doDiskCleaning: the assertions, the metrics, cleaningComplete.
diskComplete(t) ==
    /\ workers[t].pc = "d_sync"
    /\ ~aborted
    /\ pass[t].syncIdx > Len(survivorsToSync(pass[t].survivors))
    /\ LET p == pass[t]
           segmentsAfter == Len(p.survivors)
           segletsAfter == SumAlloc(segs, p.survivors) % UINT32
           segmentsBefore == Len(p.segmentsToClean)
       IN IF ~(/\ assertBytes(p.entryBytesAppended, p.maxLiveBytes)
               /\ assertSeglets(p.segletsBefore, segletsAfter)
               /\ assertSegments(segmentsBefore, segmentsAfter))
          THEN /\ aborted' = TRUE
               /\ UNCHANGED <<segs, cleanable, pass, handover, workers, totalRuns, onDiskMetrics>>
          ELSE /\ aborted' = FALSE
               /\ onDiskMetrics' = Accounted(onDiskMetrics,
                      [segletsBefore |-> p.segletsBefore,
                       segletsAfter |-> segletsAfter,
                       segmentsBefore |-> segmentsBefore,
                       segmentsAfter |-> segmentsAfter])
               /\ totalRuns' = totalRuns + 1
               \* cleaningComplete(segmentsToClean, survivors)
               /\ segs' = [s \in AllSlots |->
                             IF s \in Range(p.segmentsToClean) THEN FreeSeg
                             ELSE segs[s]]
               /\ cleanable' = cleanable \cup Range(p.survivors)
               /\ handover' = [handover EXCEPT ![t] =
                      [kind |-> "disk", old |-> Range(p.segmentsToClean),
                       survivors |-> p.survivors,
                       stale |-> StaleRefs(registry, Range(p.segmentsToClean)),
                       unsynced |-> {s \in Range(p.survivors) :
                           segs[s].syncedLength < getAppendedLength(segs, s)},
                       fallback |-> FALSE,
                       stopping |-> threadsShouldExit,
                       segletsBefore |-> SumAlloc(segs, p.segmentsToClean),
                       segletsAfter |-> SumAlloc(segs, p.survivors),
                       liveBytes |-> SumLive(segs, p.survivors)]]
               /\ SetPass(t, NoPass)
               /\ SetWorker(t, [workers[t] EXCEPT !.pc = "end", !.worked = TRUE])
    /\ UNCHANGED <<call, configVars, poolVars, threadCnt, doWorkSleepTicks, now,
                   registry, tombDead, candidates, totalSegmentsCompacted>>


(***************************************************************************)
(* The writer and the clock.                                               *)
(***************************************************************************)
\* Log::free of the object `id`: the registry drops it and the segment that
\* holds it counts its bytes out.
LogFree(id) ==
    /\ ~aborted
    /\ registry[id] # NoRef
    /\ LET r == registry[id]
       IN segs' = [segs EXCEPT ![r.seg].liveBytes = @ - segs[r.seg].entries[r.off].len]
    /\ registry' = [registry EXCEPT ![id] = NoRef]
    /\ UNCHANGED <<call, lifeVars, now, tombDead, cleanable, candidates, pass,
                   handover, aborted, totalRuns, onDiskMetrics, totalSegmentsCompacted>>

\* The segment a tombstone refers to is cleaned: the tombstone is dead, and
\* no counter of its own segment changes.
TombstoneDies(id) ==
    /\ ~aborted
    /\ id \notin tombDead
    /\ \E s \in AllSlots : \E k \in DOMAIN segs[s].entries :
          segs[s].entries[k].id = id /\ segs[s].entries[k].type = "tomb"
    /\ tombDead' = tombDead \cup {id}
    /\ UNCHANGED <<call, lifeVars, now, segs, registry, cleanable, candidates, pass,
                   handover, aborted, totalRuns, onDiskMetrics, totalSegmentsCompacted>>

\* WallTime::secondsTimestamp() moves on.
Tick ==
    /\ ~aborted
    /\ now < MaxNow
    /\ now' = now + 1
    /\ UNCHANGED <<call, lifeVars, segs, registry, tombDead, cleanable, candidates,
                   pass, handover, aborted, totalRuns, onDiskMetrics, totalSegmentsCompacted>>

(***************************************************************************)
(* The constructor's reservation of the survivor segments.                 *)
(***************************************************************************)
\* SegmentManager::initializeSurvivorReserve (specification 4.4): whether
\* `n` segments are there to be set aside.
initializeSurvivorReserve(n) == n <= Cardinality(FreeSlots)

\* A constructor that goes on whatever the reservation returns.
reserveUnchecked(n) == FALSE

\* Whether the constructor of a cleaner of `n` threads throws FatalError.
constructorThrows(n) ==
    ~initializeSurvivorReserve(n * SURVIVOR_SEGMENTS_TO_RESERVE)

\* The constructor threw: there is no cleaner to call start() or stop() on.
NoCleaner(n, wct, disable) ==
    /\ numThreads = n
    /\ writeCostThreshold = wct
    /\ disableInMemoryCleaning = disable
    /\ threads = <<>>
    /\ threadsShouldExit = FALSE
    /\ threadCnt = 0
    /\ doWorkSleepTicks = 0
    /\ workers = <<>>
    /\ nextTid = 0
    /\ mainPc = "no cleaner"
    /\ stopIndex = 0
    /\ lastCall = "none"
    /\ pass = <<>>
    /\ handover = <<>>
    /\ aborted = FALSE
    /\ totalRuns = 0
    /\ onDiskMetrics = NoMetrics
    /\ totalSegmentsCompacted = 0
    /\ candidates = <<>>

\* new LogCleaner(...) over the log as it is.
LogCleanerCtor(n, wct, disable) ==
    IF constructorThrows(n) THEN NoCleaner(n, wct, disable)
    ELSE Construct(n, wct, disable)

(***************************************************************************)
(* Initial states.                                                         *)
(***************************************************************************)
Obj(len) == [len |-> len, type |-> "obj"]
Tomb(len) == [len |-> len, type |-> "tomb"]
EntryPositions == {1, 2}

\* A closed segment as the log may hold it: its entries in the order of their
\* append, and the seglets it has.  It has every seglet when the head was
\* closed with room to spare, and only those in use when an earlier pass of
\* the cleaner produced it.
Shape(contents, alloc) == [contents |-> contents, alloc |-> alloc]

\* The logs the cleaner is started on: two closed segments each.
Populations ==
    { <<Shape(<<Obj(12), Obj(12)>>, 3), Shape(<<Obj(8)>>, 1)>>,
      <<Shape(<<Obj(8), Obj(8)>>, 3), Shape(<<Obj(22)>>, 3)>>,
      <<Shape(<<Tomb(7), Obj(12)>>, 2), Shape(<<Tomb(7), Tomb(7)>>, 2)>>,
      <<Shape(<<Tomb(7), Obj(12)>>, 3), Shape(<<Obj(8)>>, 1)>> }

EntryId(slot, k) == (slot - 1) * Cardinality(EntryPositions) + k

\* The segment of slot `slot` of the shape c, every entry counted live and
\* every byte on the backups; the k-th entry was appended at time k.
InitialSegment(slot, c) ==
    [used |-> TRUE, alloc |-> c.alloc,
     liveBytes |-> SumLen(c.contents),
     entries |-> [k \in DOMAIN c.contents |->
                     [id |-> EntryId(slot, k), len |-> c.contents[k].len,
                      ts |-> k, type |-> c.contents[k].type]],
     closed |-> TRUE, syncedLength |-> HeaderLen + SumLen(c.contents),
     creationTimestamp |-> 0, lastCompactionTimestamp |-> 0]

\* A log of the segments `population` (slot -> shape), all cleanable.
InitLog(population) ==
    /\ now = 1
    /\ segs = [s \in AllSlots |->
                  IF s \in DOMAIN population
                  THEN InitialSegment(s, population[s]) ELSE FreeSeg]
    /\ registry = [id \in {EntryId(s, k) : s \in DOMAIN population, k \in EntryPositions} |->
                      LET s == CHOOSE x \in DOMAIN population :
                                   \E k \in EntryPositions : EntryId(x, k) = id
                          k == CHOOSE x \in EntryPositions : EntryId(s, x) = id
                      IN IF k \in DOMAIN population[s].contents
                            /\ population[s].contents[k].type = "obj"
                         THEN getReference(s, k) ELSE NoRef]
    /\ tombDead = {}
    /\ cleanable = DOMAIN population

\* A cleaner of one or two threads over a log that never has a segment to
\* clean.
InitLife ==
    /\ \E n \in {1, 2}, wct \in {0, 1} : Construct(n, wct, FALSE)
    /\ InitLog(<<>>)
    /\ call = NoCall

\* A cleaner of one thread over a log of two closed segments.
InitClean ==
    /\ Construct(1, 1, FALSE)
    /\ \E population \in Populations : InitLog(population)
    /\ call = NoCall

\* The configurations of the cleaners that are stopped while they clean:
\* <<cleanerThreadCount, cleanerWriteCostThreshold, disableInMemoryCleaning>>.
Configurations ==
    {<<1, 1, FALSE>>, <<1, 0, FALSE>>, <<1, 1, TRUE>>, <<3, 1, FALSE>>}

\* The log they are constructed over.
ConfigPopulations ==
    { <<Shape(<<Tomb(7), Obj(12)>>, 2), Shape(<<Tomb(7), Obj(12)>>, 3)>> }

\* A cleaner of any of the configurations constructed over a log of two
\* closed segments.
InitConfig ==
    /\ \E population \in ConfigPopulations : InitLog(population)
    /\ \E c \in Configurations : LogCleanerCtor(c[1], c[2], c[3])
    /\ call = NoCall

\* A log of three closed segments that hold more live bytes than one
\* disk-cleaning pass takes on.
DiskPopulations ==
    { <<Shape(<<Obj(22)>>, 3), Shape(<<Obj(22)>>, 3), Shape(<<Obj(22)>>, 3)>> }

\* The utilization of an allocator that has run out of memory.
DepletedLevels == {98}

\* A cleaner of one thread over it.
InitDisk ==
    /\ \E population \in DiskPopulations : InitLog(population)
    /\ LogCleanerCtor(1, 1, FALSE)
    /\ call = NoCall

\* Logs of closed segments, the last created when the cleaner starts and the
\* others before.  In the first the last segment would still fit in a pass
\* that has taken two of the others; the first segment of the second is too
\* full to be cleaned on disk; the two segments of the third fill one
\* survivor, which is then too full to be cleaned on disk.
SelectPopulations ==
    { <<Shape(<<Obj(22)>>, 3), Shape(<<Obj(22)>>, 3), Shape(<<Obj(22)>>, 3),
        Shape(<<Obj(16)>>, 3)>>,
      <<Shape(<<Obj(19)>>, 2), Shape(<<Obj(22)>>, 3), Shape(<<Obj(22)>>, 3),
        Shape(<<Obj(16)>>, 3)>>,
      <<Shape(<<Obj(22)>>, 3), Shape(<<Obj(7)>>, 3)>> }

\* A cleaner of one thread over one of them, at time 3.
InitSelect ==
    /\ \E population \in SelectPopulations :
          /\ now = 3
          /\ segs = [s \in AllSlots |->
                IF s \notin DOMAIN population THEN FreeSeg
                ELSE [InitialSegment(s, population[s]) EXCEPT
                        !.creationTimestamp =
                            IF s = Len(population) THEN now ELSE 0]]
          /\ registry = [id \in {EntryId(s, k) : s \in DOMAIN population,
                                                 k \in EntryPositions} |->
                IF \E s \in DOMAIN population : id = EntryId(s, 1)
                THEN getReference(CHOOSE s \in DOMAIN population :
                                     id = EntryId(s, 1), 1)
                ELSE NoRef]
          /\ tombDead = {}
          /\ cleanable = DOMAIN population
    /\ LogCleanerCtor(1, 1, FALSE)
    /\ call = NoCall

\* A log of one closed segment that has a seglet to give up.
RestartPopulations ==
    { <<Shape(<<Obj(8), Obj(8)>>, 3)>> }

\* A cleaner of one thread over it, to be started, stopped and started again.
InitRestart ==
    /\ \E population \in RestartPopulations : InitLog(population)
    /\ LogCleanerCtor(1, 1, FALSE)
    /\ call = NoCall

\* The log two workers clean together: two closed segments with a seglet to
\* give up each.
PairPopulations ==
    { <<Shape(<<Obj(8), Obj(8)>>, 3), Shape(<<Obj(8)>>, 2)>> }

\* A cleaner of two threads over it.
InitPair ==
    /\ \E population \in PairPopulations : InitLog(population)
    /\ LogCleanerCtor(2, 1, FALSE)
    /\ call = NoCall

\* A segment manager short of seglets: the seglets it may hand a side segment
\* out with, down to a single one.
ShortSideSegments == 1 .. segletsPerSegment

\* The log such a segment manager's cleaner works on.
FaultPopulations ==
    { <<Shape(<<Obj(12), Obj(12)>>, 3), Shape(<<Obj(8)>>, 1)>> }

\* A cleaner of one thread over it.
InitFault ==
    /\ \E population \in FaultPopulations : InitLog(population)
    /\ LogCleanerCtor(1, 1, FALSE)
    /\ call = NoCall

\* A cleaner of two threads over the same log, with the same segment manager.
InitFaultPool ==
    /\ \E population \in FaultPopulations : InitLog(population)
    /\ LogCleanerCtor(2, 1, FALSE)
    /\ call = NoCall

\* The defaults of the configuration (specification 6): a seglet of 64 KiB
\* and a segment of 8 MiB, which is 128 seglets.
DefaultSegletSize == 65536
DefaultSegmentSize == 8388608
SegletsInDefaultSegment == DefaultSegmentSize \div DefaultSegletSize

\* The <<liveBytes, segletSize>> that segletsNeeded is computed for: every
\* liveBytes of a segment of 128 seglets for three small seglet sizes, and
\* the ends of the range and the multiples about one seglet for the default.
NeededInputs ==
    {<<liveBytes, size>> : liveBytes \in 0 .. 256, size \in {2}}
    \cup {<<liveBytes, size>> : liveBytes \in 0 .. 1280, size \in {10}}
    \cup {<<liveBytes, size>> : liveBytes \in 0 .. 2048, size \in {16}}
    \cup {<<liveBytes, DefaultSegletSize>> : liveBytes \in
             {0, 1, DefaultSegletSize - 1, DefaultSegletSize,
              DefaultSegletSize + 1, 2 * DefaultSegletSize,
              DefaultSegmentSize - 1, DefaultSegmentSize}}

\* The computation of segletsNeeded in getSegmentToCompact's first loop, for
\* a candidate of `liveBytes` live bytes and seglets of `size` bytes.
callSegletsNeeded(liveBytes, size) ==
    /\ call = NoCall
    /\ call' = [fn |-> "segletsNeeded", liveBytes |-> liveBytes,
                segletSize |-> size,
                product |-> 100 * (liveBytes + size - 1),
                result |-> segletsNeededFor(liveBytes, size)]
    /\ UNCHANGED <<lifeVars, logVars>>

\* A cleaner that has not been started, over an empty log.
InitCalls ==
    /\ InitLog(<<>>)
    /\ LogCleanerCtor(1, 1, FALSE)
    /\ call = NoCall

(***************************************************************************)
(* Key (Key.cc; specification 4.1).  A table identifier is 64 bits wide and *)
(* is held as its two 32-bit words; a binary string key is the first       *)
(* stringKeyLength bytes of the memory stringKey points to; hash is a Tub: *)
(* empty, or holding one value.                                            *)
(***************************************************************************)
\* The values a fingerprint takes.
HashRange == 16

\* One round of the mixing of a byte into the hash.
MurmurRound(h, byte) == (h * 5 + byte + 1) % HashRange

RECURSIVE MurmurBody(_, _)
MurmurBody(h, bytes) ==
    IF bytes = <<>> THEN h ELSE MurmurBody(MurmurRound(h, Head(bytes)), Tail(bytes))

\* MurmurHash3_x64_128(key, len, seed, &out): out[0] and out[1], from the
\* first `len` bytes of `key`, the length and the seed.
MurmurHash3_x64_128(key, len, seed) ==
    LET h == MurmurBody(seed % HashRange, SubSeq(key, 1, len))
    IN <<(h + len) % HashRange, (3 * h + len + 1) % HashRange>>

\* A seed that takes in both words of the table identifier.
tableIdSeedOfBothWords(tableId) == tableId.hi + tableId.lo

\* static_cast<uint32_t>(tableId).
tableIdSeed(tableId) == tableId.lo

\* The static Key::getHash(tableId, stringKey, stringKeyLength).
getHash(tableId, stringKey, stringKeyLength) ==
    MurmurHash3_x64_128(stringKey, stringKeyLength, tableIdSeed(tableId))[1]

\* Key::Key(tableId, stringKey, stringKeyLength).
Key(tableId, stringKey, stringKeyLength) ==
    [tableId |-> tableId, stringKey |-> stringKey,
     stringKeyLength |-> stringKeyLength, hash |-> <<>>]

\* The member Key::getHash(): the key after the call and the value returned.
KeyGetHash(key) ==
    LET hash == IF key.hash = <<>>
                THEN <<getHash(key.tableId, key.stringKey, key.stringKeyLength)>>
                ELSE key.hash
    IN [key |-> [key EXCEPT !.hash = hash], value |-> hash[1]]

\* bcmp(a, b, n): 0 when the first n bytes are the same.
bcmp(a, b, n) == IF \A i \in 1 .. n : a[i] = b[i] THEN 0 ELSE 1

\* An equality that takes two cached hashes for the answer.
equalByHashWhenCached(key, other) ==
    IF key.hash # <<>> /\ other.hash # <<>>
    THEN key.hash[1] = other.hash[1]
    ELSE /\ key.tableId = other.tableId
         /\ key.stringKeyLength = other.stringKeyLength
         /\ bcmp(key.stringKey, other.stringKey, key.stringKeyLength) = 0

\* Key::operator==.
operatorEq(key, other) ==
    IF key.hash # <<>> /\ other.hash # <<>> /\ key.hash[1] # other.hash[1]
    THEN FALSE
    ELSE IF key.tableId # other.tableId THEN FALSE
    ELSE IF key.stringKeyLength # other.stringKeyLength THEN FALSE
    ELSE bcmp(key.stringKey, other.stringKey, key.stringKeyLength) = 0

\* Key::operator!=.
operatorNe(key, other) == ~operatorEq(key, other)

\* The table identifiers keys are made of: two that agree in their low word,
\* and one that differs in it.
TableIds == <<[hi |-> 0, lo |-> 1], [hi |-> 1, lo |-> 1], [hi |-> 0, lo |-> 2]>>

\* The <<stringKey, stringKeyLength>> keys are made of: the empty key, keys
\* of the same bytes in different memory, of the same memory and different
\* lengths, and of different bytes.
StringKeys ==
    <<  <<<<>>, 0>>, <<<<0>>, 1>>, <<<<1>>, 1>>, <<<<0, 1>>, 1>>, <<<<0, 1>>, 2>>  >>

\* The keys, numbered.
KeyInputs ==
    [n \in 1 .. (Len(TableIds) * Len(StringKeys)) |->
           LET id == TableIds[((n - 1) \div Len(StringKeys)) + 1]
               sk == StringKeys[((n - 1) % Len(StringKeys)) + 1]
           IN Key(id, sk[1], sk[2])]

\* Three keys under examination, none of them hashed yet.
InitKeys ==
    /\ InitLog(<<>>)
    /\ LogCleanerCtor(1, 1, FALSE)
    /\ \E i, j, k \in DOMAIN KeyInputs :
          /\ i <= j /\ j <= k
          /\ call = [fn |-> "Key",
                     keys |-> <<KeyInputs[i], KeyInputs[j], KeyInputs[k]>>,
                     returned |-> NoCall]

\* key.getHash() of the i-th key.
callGetHash(i) ==
    /\ call.fn = "Key"
    /\ LET r == KeyGetHash(call.keys[i])
       IN call' = [call EXCEPT !.keys[i] = r.key,
                       !.returned = [fn |-> "getHash", a |-> i, b |-> i,
                                     cached |-> call.keys[i].hash # <<>>,
                                     value |-> r.value]]
    /\ UNCHANGED <<lifeVars, logVars>>

\* keys[i] == keys[j].
callOperatorEq(i, j) ==
    /\ call.fn = "Key"
    /\ call' = [call EXCEPT !.returned =
                    [fn |-> "operator==", a |-> i, b |-> j, cached |-> FALSE,
                     value |-> operatorEq(call.keys[i], call.keys[j])]]
    /\ UNCHANGED <<lifeVars, logVars>>

\* keys[i] != keys[j].
callOperatorNe(i, j) ==
    /\ call.fn = "Key"
    /\ call' = [call EXCEPT !.returned =
                    [fn |-> "operator!=", a |-> i, b |-> j, cached |-> FALSE,
                     value |-> operatorNe(call.keys[i], call.keys[j])]]
    /\ UNCHANGED <<lifeVars, logVars>>

(***************************************************************************)
(* CostBenefitComparer: std::sort's calls of operator(), one sort after    *)
(* the other, the writer freeing objects and the clock moving on between   *)
(* any two of them.  `cache` holds costBenefit and costBenefitVersion of   *)
(* each LogSegment.                                                        *)
(***************************************************************************)
MaxSorts == 2
MaxCompares == 3

\* The segments of the log.
InLog == {s \in AllSlots : segs[s].used}

\* costBenefit and costBenefitVersion of a segment no comparer has seen.
NeverCompared == [costBenefit |-> 0, costBenefitVersion |-> 0]

\* A comparer that computes the cost-benefit at every comparison.
computedAtEveryComparison(cached, version) == TRUE

\* if (a->costBenefitVersion != version).
versionDiffers(cached, version) == cached.costBenefitVersion # version

\* One of the two blocks of operator(): the cached fields of segment a
\* brought to the comparer's version.
Refreshed(cache, comparer, a) ==
    IF versionDiffers(cache[a], comparer.version)
    THEN [cache EXCEPT ![a] =
            [costBenefit |-> costBenefitAt(a, comparer.now),
             costBenefitVersion |-> comparer.version]]
    ELSE cache

\* operator()(a, b): the cache afterwards and the value returned.
CostBenefitCompare(cache, comparer, a, b) ==
    LET afterA == Refreshed(cache, comparer, a)
        afterB == Refreshed(afterA, comparer, b)
    IN [cache |-> afterB,
        value |-> afterB[a].costBenefit > afterB[b].costBenefit]

\* Three segments: one created before the cleaner's clock started, one
\* nearly full, and one with a creation timestamp the clock has yet to
\* reach.
SortPopulations ==
    { <<Shape(<<Obj(8)>>, 3), Shape(<<Obj(22)>>, 3), Shape(<<Obj(12)>>, 3)>> }

InitSort ==
    /\ \E population \in SortPopulations :
          /\ now = 1
          /\ segs = [s \in AllSlots |->
                IF s \notin DOMAIN population THEN FreeSeg
                ELSE [InitialSegment(s, population[s]) EXCEPT
                        !.creationTimestamp =
                            IF s = Len(population) THEN MaxNow + 1 ELSE 0]]
          /\ registry = [id \in {EntryId(s, k) : s \in DOMAIN population,
                                                 k \in EntryPositions} |->
                IF \E s \in DOMAIN population : id = EntryId(s, 1)
                THEN getReference(CHOOSE s \in DOMAIN population :
                                     id = EntryId(s, 1), 1)
                ELSE NoRef]
          /\ tombDead = {}
          /\ cleanable = DOMAIN population
    /\ LogCleanerCtor(1, 1, FALSE)
    /\ call = [fn |-> "sort", sorting |-> FALSE, rdtsc |-> 0,
               comparer |-> [now |-> 0, version |-> 0],
               cache |-> [s \in AllSlots |-> NeverCompared],
               computed |-> [s \in AllSlots |-> 0],
               results |-> {}, compares |-> 0]

\* sortSegmentsByCostBenefit constructs its CostBenefitComparer: now is
\* WallTime::secondsTimestamp() and version is Cycles::rdtsc().
sortBegin ==
    /\ call.fn = "sort"
    /\ ~call.sorting
    /\ call.rdtsc < MaxSorts
    /\ call' = [call EXCEPT !.sorting = TRUE,
                            !.rdtsc = @ + 1,
                            !.comparer = [now |-> now, version |-> call.rdtsc + 1],
                            !.computed = [s \in AllSlots |-> 0],
                            !.results = {},
                            !.compares = 0]
    /\ UNCHANGED <<lifeVars, logVars>>

\* One call of operator()(a, b) by std::sort.
sortCompare(a, b) ==
    /\ call.fn = "sort"
    /\ call.sorting
    /\ call.compares < MaxCompares
    /\ LET r == CostBenefitCompare(call.cache, call.comparer, a, b)
       IN call' = [call EXCEPT
              !.cache = r.cache,
              !.computed = [s \in AllSlots |->
                  IF s \in {a, b} /\ versionDiffers(call.cache[s],
                                                     call.comparer.version)
                  THEN Min(2, @[s] + 1) ELSE @[s]],
              !.results = @ \cup {[a |-> a, b |-> b, value |-> r.value]},
              !.compares = @ + 1]
    /\ UNCHANGED <<lifeVars, logVars>>

\* std::sort returns.
sortEnd ==
    /\ call.fn = "sort"
    /\ call.sorting
    /\ call' = [call EXCEPT !.sorting = FALSE]
    /\ UNCHANGED <<lifeVars, logVars>>

(***************************************************************************)
(* Next-state relations and specifications.                                *)
(***************************************************************************)
Tids == 1 .. MaxThreads

\* The steps of a worker between its passes.
WorkerIdle(t) ==
    \/ threadEntry(t)
    \/ threadExit(t)
    \/ threadLoop(t)
    \/ memSelect(t)
    \/ diskSelect(t)
    \/ doWorkEnd(t)

NextLife ==
    \/ start
    \/ stopBegin
    \/ stopJoin
    \/ stopEnd
    \/ \E t \in DOMAIN workers : threadEntry(t)
    \/ \E t \in DOMAIN workers : threadExit(t)
    \/ \E t \in DOMAIN workers : threadLoop(t)
    \/ \E t \in DOMAIN workers : doWorkBegin(t, MemLevels, DiskLevels)
    \/ \E t \in DOMAIN workers : memSelect(t)
    \/ \E t \in DOMAIN workers : diskSelect(t)
    \/ \E t \in DOMAIN workers : doWorkEnd(t)

NextClean ==
    \/ (lastCall = "none" /\ start)
    \/ \E t \in DOMAIN workers : threadEntry(t)
    \/ \E t \in DOMAIN workers : threadLoop(t)
    \/ \E t \in DOMAIN workers : doWorkBegin(t, PressureLevels, CalmLevels)
    \/ \E t \in DOMAIN workers : memSelect(t)
    \/ \E t \in DOMAIN workers : memRelocate(t)
    \/ \E t \in DOMAIN workers : memComplete(t)
    \/ \E t \in DOMAIN workers : diskSelect(t)
    \/ \E t \in DOMAIN workers : diskSample(t)
    \/ \E t \in DOMAIN workers : diskRelocate(t)
    \/ \E t \in DOMAIN workers : diskRetry(t)
    \/ \E t \in DOMAIN workers : diskCloseLast(t)
    \/ \E t \in DOMAIN workers : diskSync(t)
    \/ \E t \in DOMAIN workers : diskComplete(t)
    \/ \E t \in DOMAIN workers : doWorkEnd(t)
    \/ \E id \in DOMAIN registry : LogFree(id)
    \/ \E id \in DOMAIN registry : TombstoneDies(id)
    \/ Tick

NextConfig ==
    \/ (lastCall = "none" /\ start)
    \/ stopBegin
    \/ stopJoin
    \/ stopEnd
    \/ \E t \in DOMAIN workers : threadEntry(t)
    \/ \E t \in DOMAIN workers : threadExit(t)
    \/ \E t \in DOMAIN workers : threadLoop(t)
    \/ \E t \in DOMAIN workers : doWorkBegin(t, PressureLevels, CalmLevels)
    \/ \E t \in DOMAIN workers : memSelect(t)
    \/ \E t \in DOMAIN workers : memRelocate(t)
    \/ \E t \in DOMAIN workers : memComplete(t)
    \/ \E t \in DOMAIN workers : diskSelect(t)
    \/ \E t \in DOMAIN workers : diskSample(t)
    \/ \E t \in DOMAIN workers : diskRelocate(t)
    \/ \E t \in DOMAIN workers : diskRetry(t)
    \/ \E t \in DOMAIN workers : diskCloseLast(t)
    \/ \E t \in DOMAIN workers : diskSync(t)
    \/ \E t \in DOMAIN workers : diskComplete(t)
    \/ \E t \in DOMAIN workers : doWorkEnd(t)
    \/ \E id \in DOMAIN registry : LogFree(id)
    \/ \E id \in DOMAIN registry : TombstoneDies(id)
    \/ Tick

NextDisk ==
    \/ (lastCall = "none" /\ start)
    \/ \E t \in DOMAIN workers : threadEntry(t)
    \/ \E t \in DOMAIN workers : threadLoop(t)
    \/ \E t \in DOMAIN workers : doWorkBegin(t, DepletedLevels, CalmLevels)
    \/ \E t \in DOMAIN workers : diskSelect(t)
    \/ \E t \in DOMAIN workers : diskSample(t)
    \/ \E t \in DOMAIN workers : diskRelocate(t)
    \/ \E t \in DOMAIN workers : diskRetry(t)
    \/ \E t \in DOMAIN workers : diskCloseLast(t)
    \/ \E t \in DOMAIN workers : diskSync(t)
    \/ \E t \in DOMAIN workers : diskComplete(t)
    \/ \E t \in DOMAIN workers : doWorkEnd(t)
    \/ \E id \in DOMAIN registry : LogFree(id)

\* The same worker with the writer at rest.
NextSelect ==
    \/ (lastCall = "none" /\ start)
    \/ \E t \in DOMAIN workers : threadEntry(t)
    \/ \E t \in DOMAIN workers : threadLoop(t)
    \/ \E t \in DOMAIN workers : doWorkBegin(t, DepletedLevels, CalmLevels)
    \/ \E t \in DOMAIN workers : diskSelect(t)
    \/ \E t \in DOMAIN workers : diskSample(t)
    \/ \E t \in DOMAIN workers : diskRelocate(t)
    \/ \E t \in DOMAIN workers : diskRetry(t)
    \/ \E t \in DOMAIN workers : diskCloseLast(t)
    \/ \E t \in DOMAIN workers : diskSync(t)
    \/ \E t \in DOMAIN workers : diskComplete(t)
    \/ \E t \in DOMAIN workers : doWorkEnd(t)

\* The steps of a worker in a pass.
WorkerCleans(t) ==
    \/ memRelocate(t)
    \/ memComplete(t)
    \/ diskSample(t)
    \/ diskRelocate(t)
    \/ diskRetry(t)
    \/ diskCloseLast(t)
    \/ diskSync(t)
    \/ diskComplete(t)

NextRestart ==
    \/ start
    \/ stopBegin
    \/ stopJoin
    \/ stopEnd
    \/ \E t \in DOMAIN workers : threadEntry(t)
    \/ \E t \in DOMAIN workers : threadExit(t)
    \/ \E t \in DOMAIN workers : threadLoop(t)
    \/ \E t \in DOMAIN workers : doWorkBegin(t, PressureLevels, CalmLevels)
    \/ \E t \in DOMAIN workers : memSelect(t)
    \/ \E t \in DOMAIN workers : memRelocate(t)
    \/ \E t \in DOMAIN workers : memComplete(t)
    \/ \E t \in DOMAIN workers : diskSelect(t)
    \/ \E t \in DOMAIN workers : diskSample(t)
    \/ \E t \in DOMAIN workers : diskRelocate(t)
    \/ \E t \in DOMAIN workers : diskRetry(t)
    \/ \E t \in DOMAIN workers : diskCloseLast(t)
    \/ \E t \in DOMAIN workers : diskSync(t)
    \/ \E t \in DOMAIN workers : diskComplete(t)
    \/ \E t \in DOMAIN workers : doWorkEnd(t)
    \/ \E id \in DOMAIN registry : LogFree(id)

NextPair ==
    \/ (lastCall = "none" /\ start)
    \/ \E t \in DOMAIN workers : threadEntry(t)
    \/ \E t \in DOMAIN workers : threadLoop(t)
    \/ \E t \in DOMAIN workers : doWorkBegin(t, PressureLevels, CalmLevels)
    \/ \E t \in DOMAIN workers : memSelect(t)
    \/ \E t \in DOMAIN workers : memRelocate(t)
    \/ \E t \in DOMAIN workers : memComplete(t)
    \/ \E t \in DOMAIN workers : diskSelect(t)
    \/ \E t \in DOMAIN workers : diskSample(t)
    \/ \E t \in DOMAIN workers : diskRelocate(t)
    \/ \E t \in DOMAIN workers : diskRetry(t)
    \/ \E t \in DOMAIN workers : diskCloseLast(t)
    \/ \E t \in DOMAIN workers : diskSync(t)
    \/ \E t \in DOMAIN workers : diskComplete(t)
    \/ \E t \in DOMAIN workers : doWorkEnd(t)

NextFault ==
    \/ (lastCall = "none" /\ start)
    \/ \E t \in DOMAIN workers : threadEntry(t)
    \/ \E t \in DOMAIN workers : threadLoop(t)
    \/ \E t \in DOMAIN workers : doWorkBegin(t, PressureLevels, CalmLevels)
    \/ \E t \in DOMAIN workers : memSelectFrom(t, ShortSideSegments)
    \/ \E t \in DOMAIN workers : memRelocate(t)
    \/ \E t \in DOMAIN workers : memComplete(t)
    \/ \E t \in DOMAIN workers : diskSelect(t)
    \/ \E t \in DOMAIN workers : diskSample(t)
    \/ \E t \in DOMAIN workers : diskRelocateFrom(t, ShortSideSegments)
    \/ \E t \in DOMAIN workers : diskRetry(t)
    \/ \E t \in DOMAIN workers : diskCloseLast(t)
    \/ \E t \in DOMAIN workers : diskSync(t)
    \/ \E t \in DOMAIN workers : diskComplete(t)
    \/ \E t \in DOMAIN workers : doWorkEnd(t)
    \/ \E id \in DOMAIN registry : LogFree(id)

NextKeys ==
    \/ \E i \in DOMAIN call.keys : callGetHash(i)
    \/ \E i, j \in DOMAIN call.keys : callOperatorEq(i, j)
    \/ \E i, j \in DOMAIN call.keys : callOperatorNe(i, j)

NextCalls ==
    \E input \in NeededInputs : callSegletsNeeded(input[1], input[2])

\* The pool: start, stop and workers over an empty log.
SpecLife == InitLife /\ [][NextLife]_vars

\* The same with every thread scheduled again and again, and the caller of
\* stop() going on.
FairLife ==
    /\ SpecLife
    /\ WF_vars(stopJoin)
    /\ WF_vars(stopEnd)
    /\ \A t \in Tids : WF_vars(t \in DOMAIN workers /\
            (WorkerIdle(t) \/ doWorkBegin(t, MemLevels, DiskLevels)))

\* One worker cleaning a log the writer frees objects of.
SpecClean == InitClean /\ [][NextClean]_vars

\* A cleaner of any configuration, started once and stopped at any moment of
\* its cleaning.
SpecConfig == InitConfig /\ [][NextConfig]_vars

\* One worker, out of memory, cleaning on disk a log that holds more than a
\* pass takes on.
SpecDisk == InitDisk /\ [][NextDisk]_vars

NextSort ==
    \/ sortBegin
    \/ \E a, b \in InLog : sortCompare(a, b)
    \/ sortEnd
    \/ \E id \in DOMAIN registry : LogFree(id)
    \/ Tick

\* The sorts of the candidates by cost-benefit, comparison by comparison,
\* with the writer at work.
SpecSort == InitSort /\ [][NextSort]_vars

\* One worker, out of memory, selecting among four candidates.
SpecSelect == InitSelect /\ [][NextSelect]_vars

\* A cleaner of one thread under memory pressure, started and stopped any
\* number of times while it cleans.
SpecRestart == InitRestart /\ [][NextRestart]_vars

\* The same with its thread scheduled again and again, and the caller of
\* stop() going on.
FairRestart ==
    /\ SpecRestart
    /\ WF_vars(stopJoin)
    /\ WF_vars(stopEnd)
    /\ \A t \in Tids : WF_vars(t \in DOMAIN workers /\
            (WorkerIdle(t) \/ WorkerCleans(t)
               \/ doWorkBegin(t, PressureLevels, CalmLevels)))

\* Two workers cleaning one log.
SpecPair == InitPair /\ [][NextPair]_vars

\* One worker cleaning with side segments that come short of seglets.
SpecFault == InitFault /\ [][NextFault]_vars

\* Two workers and the writer, with such side segments.
SpecFaultPool == InitFaultPool /\ [][NextFault]_vars

\* Three keys, hashed and compared in any order.
SpecKeys == InitKeys /\ [][NextKeys]_vars

\* The functions of the cleaner, each called on the inputs drawn for it.
SpecCalls == InitCalls /\ [][NextCalls]_vars

Spec == SpecClean

(***************************************************************************)
(* Properties.                                                             *)
(***************************************************************************)
Handovers == {handover[t] : t \in DOMAIN handover}
DiskHandovers == {h \in Handovers : h.kind = "disk"}
MemoryHandovers == {h \in Handovers : h.kind = "memory"}

\* The memory utilization of the segment a compaction handed over.
ResultingUtilization(h) ==
    (100 * h.liveBytes) \div (h.segletsAfter * segletSize)

\* The threads that are inside a disk-cleaning pass.
DiskCleaners ==
    {t \in DOMAIN workers : workers[t].pc \in {"d_sample", "d_reloc", "d_sync"}}

\* C1: when a disk-cleaning pass calls cleaningComplete, the sync of every
\* survivor of the pass has returned for the survivor's whole appended
\* length; and while the pass is under way none of the segments it cleans
\* has been given up.
SurvivorsSyncedBeforeCleaningComplete ==
    /\ \A h \in DiskHandovers : h.unsynced = {}
    /\ \A t \in DiskCleaners :
          \A s \in Range(pass[t].segmentsToClean) : segs[s].used

\* C1: a pass that wrote two survivors has called cleaningComplete.
TwoSurvivorsHandedOver ==
    \E h \in DiskHandovers : Len(h.survivors) = 2 /\ h.unsynced = {}

\* C2: at the hand-over of a compaction or of a disk-cleaning pass no
\* reference of the registry points into a segment that is handed over as
\* old, and at every moment each reference of the registry resolves to the
\* entry it was registered for.
ReferencesStayValid ==
    /\ \A h \in Handovers : h.kind # "none" => h.stale = {}
    /\ \A id \in DOMAIN registry :
          registry[id] # NoRef =>
             /\ segs[registry[id].seg].used
             /\ registry[id].off \in DOMAIN segs[registry[id].seg].entries
             /\ segs[registry[id].seg].entries[registry[id].off].id = id

\* C2: a pass was handed over and the registry refers to a live object in
\* one of its survivors.
RelocatedObjectHandedOver ==
    \E h \in Handovers : h.kind # "none" /\
        \E id \in DOMAIN registry : registry[id].seg \in Range(h.survivors)

\* C3: a completed disk-cleaning pass leaves the survivors with no more
\* seglets than the cleaned segments had.
NoNetMemoryGrowth ==
    \A h \in DiskHandovers : h.segletsAfter <= h.segletsBefore

\* C3: a completed pass whose survivors hold live data in fewer seglets.
SurvivorsInFewerSeglets ==
    \E h \in DiskHandovers :
        /\ h.survivors # <<>>
        /\ h.liveBytes > 0
        /\ h.segletsAfter < h.segletsBefore

\* C4, as amended: a completed disk-cleaning pass creates at most as many
\* survivors as it cleaned segments.
NoMoreSurvivorsThanCleaned ==
    \A h \in DiskHandovers : Len(h.survivors) <= Cardinality(h.old)

\* C4: a completed pass with as many survivors as cleaned segments.
AsManySurvivorsAsCleaned ==
    \E h \in DiskHandovers :
        h.survivors # <<>> /\ Len(h.survivors) = Cardinality(h.old)

\* C4, as the specification has it: a completed disk-cleaning pass creates
\* strictly fewer survivors than it cleaned segments.
FewerSurvivorsThanCleaned ==
    \A h \in DiskHandovers : Len(h.survivors) < Cardinality(h.old)

Deciding == {t \in DOMAIN workers : workers[t].fresh}

\* C6: worker 0 runs a disk-cleaning pass if the disk utilization is at
\* least MIN_DISK_UTILIZATION or memUtil is at least
\* MEMORY_DEPLETED_UTILIZATION; otherwise, if memUtil is at least
\* MIN_MEMORY_UTILIZATION, it runs a compaction.
WorkerZeroFollowsUtilization ==
    \A t \in Deciding :
        LET w == workers[t]
        IN w.threadNumber = 0 =>
             IF w.lowOnDiskSpace \/ w.memUtil >= MEMORY_DEPLETED_UTILIZATION
             THEN w.ran = "disk"
             ELSE (w.memUtil >= MIN_MEMORY_UTILIZATION => w.ran = "memory")

\* C7: a worker k >= 1 never runs a disk-cleaning pass, and runs a
\* compaction exactly when the memUtil it read is at least min(99, 90 + 2k).
HelperFollowsThreshold ==
    \A t \in Deciding :
        LET w == workers[t]
        IN w.threadNumber >= 1 =>
             /\ w.ran # "disk"
             /\ w.ran = "memory" <=> w.memUtil >= Min(99, 90 + 2 * w.threadNumber)

\* C8: a worker back at the top of its loop after an iteration that called
\* a pass which did no work has slept.
IdleIterationSleeps ==
    \A t \in DOMAIN workers :
        LET w == workers[t]
        IN w.pc = "top" /\ w.ran # "none" /\ ~w.worked => w.slept

\* C9: a stop() that was begun returns; when it has returned no worker is
\* running, every slot is empty and threadsShouldExit is false; and stop()
\* creates no thread and starts none running, so that on a cleaner that is
\* not running it changes nothing.
StopReturnsAndLeavesNoThread ==
    /\ [](mainPc = "idle" /\ lastCall = "stop" =>
            /\ Running = {}
            /\ \A i \in Slots : threads[i] = NULL
            /\ ~threadsShouldExit)
    /\ (mainPc = "stop" ~> mainPc = "idle")
    /\ [][mainPc = "stop" => nextTid' = nextTid /\ Running' \subseteq Running]_vars

\* C9: stop(), start(), stop() have returned, with two threads each time.
StoppedTwice ==
    /\ mainPc = "idle"
    /\ lastCall = "stop"
    /\ numThreads = 2
    /\ nextTid = 2 * numThreads
    /\ Running = {}

\* C10: never more than numThreads workers run, each of them held by a slot,
\* and after a start() exactly numThreads run, whether or not the workers
\* were running when start() was called.
StartIsIdempotent ==
    /\ Cardinality(Running) <= numThreads
    /\ Running \subseteq {threads[i] : i \in Slots}
    /\ (mainPc = "idle" /\ lastCall \in {"start", "start again"} =>
            /\ Cardinality(Running) = numThreads
            /\ \A i \in Slots : threads[i] # NULL)

\* C10: start() was called on a cleaner whose two workers were running.
StartedAgain ==
    /\ lastCall = "start again"
    /\ numThreads = 2
    /\ Cardinality(Running) = 2


\* The threads that hold segments they took out of the candidates.
HoldingSegments ==
    {t \in DOMAIN pass : pass[t].segment # NULL \/ pass[t].segmentsToClean # <<>>}

\* C11: stop() interrupts no pass.  A thread leaves only from the top of its
\* loop, between two calls of doWork; a thread that holds segments it took
\* out of the candidates is inside its pass unless a fatal error was raised;
\* and a thread that has left holds none: it called compactionComplete or
\* cleaningComplete for every segment it had taken.
CancellationIsCooperative ==
    /\ [](\A t \in HoldingSegments :
            aborted \/ workers[t].pc \in {"m_reloc", "d_sample", "d_reloc", "d_sync"})
    /\ [](\A t \in DOMAIN workers : workers[t].pc = "exited" => pass[t] = NoPass)
    /\ [][\A t \in DOMAIN workers :
            workers[t].pc # "exited" /\ workers'[t].pc = "exited"
                => workers[t].pc = "top" /\ threadsShouldExit]_vars

\* C11: a thread has left after a pass that it completed while stop() was
\* waiting for it.
ExitedAfterPassUnderStop ==
    \E t \in DOMAIN workers :
        /\ workers[t].pc = "exited"
        /\ handover[t].kind # "none"
        /\ handover[t].stopping

\* C12: when the survivor segments cannot be reserved at construction there
\* is no cleaner afterwards, and no thread is ever created or started.
FailedReserveLeavesNoCleaner ==
    ~initializeSurvivorReserve(numThreads * SURVIVOR_SEGMENTS_TO_RESERVE)
        => [](/\ mainPc = "no cleaner"
              /\ workers = <<>>
              /\ nextTid = 0
              /\ threadCnt = 0
              /\ \A i \in DOMAIN threads : threads[i] = NULL)

\* C12: the constructor threw, and the log has gone on since.
LogGoesOnWithoutCleaner ==
    /\ mainPc = "no cleaner"
    /\ now > 1
    /\ \E s \in AllSlots : segs[s].liveBytes < SumLen(segs[s].entries)

\* C13: with cleanerWriteCostThreshold 0 or disableInMemoryCleaning set no
\* compaction happens: no thread is ever inside one, none is counted or
\* handed over, and a call of doMemoryCleaning leaves the candidates and the
\* segments as they are.
DisabledMeansNoCompaction ==
    /\ [](writeCostThreshold = 0 \/ disableInMemoryCleaning =>
            /\ totalSegmentsCompacted = 0
            /\ MemoryHandovers = {}
            /\ \A t \in DOMAIN workers :
                  workers[t].pc # "m_reloc" /\ pass[t].segment = NULL)
    /\ [][\A t \in DOMAIN workers :
            /\ writeCostThreshold = 0 \/ disableInMemoryCleaning
            /\ workers[t].pc = "memory"
            /\ workers'[t].pc # "memory"
            => candidates' = candidates /\ segs' = segs /\ workers'[t].pc = "end"]_vars

\* C13: a cleaner with cleanerWriteCostThreshold 0 has returned from a call
\* of doMemoryCleaning while a candidate had seglets to give up.
DisabledCompactionSkipped ==
    /\ writeCostThreshold = 0
    /\ \E t \in DOMAIN workers : workers[t].pc = "end" /\ workers[t].ran = "memory"
    /\ getSegmentToCompact.index # 0
    /\ ~getSegmentToCompact.fallback


\* delta = allocatedSeglets - segletsNeeded of a segment, as an integer.
Delta(s) == getSegletsAllocated(s) - segletsNeeded(segs[s].liveBytes)

\* tombstoneCount * (now - lastCompactionTimestamp) of a segment.
Goodness(s) ==
    getEntryCount(s, "tomb") * (now - segs[s].lastCompactionTimestamp)

\* Whether some candidate has a positive delta.
SomePositiveDelta == \E c \in Range(candidates) : Delta(c) > 0

\* The step of thread t that is its call of getSegmentToCompact.
SelectsToCompact(t) ==
    /\ t \in DOMAIN workers
    /\ workers[t].pc = "memory"
    /\ workers'[t].pc # "memory"
    /\ ~disableInMemoryCleaning

\* C14: when some candidate has a positive delta, getSegmentToCompact returns
\* a candidate of the greatest delta and reports that delta as the freeable
\* seglets; the segment it returns needs fewer seglets than it has, and it
\* is taken out of the candidates.
LargestDeltaIsCompacted ==
    [][\A t \in Tids : SelectsToCompact(t) /\ SomePositiveDelta =>
          /\ workers'[t].pc = "m_reloc"
          /\ pass'[t].segment \in Range(candidates)
          /\ pass'[t].segment \notin Range(candidates')
          /\ \A c \in Range(candidates) : Delta(c) <= Delta(pass'[t].segment)
          /\ pass'[t].freeableSeglets = Delta(pass'[t].segment)
          /\ segletsNeeded(segs[pass'[t].segment].liveBytes)
                < getSegletsAllocated(pass'[t].segment)
          /\ ~pass'[t].fallback]_vars

\* C14: a compaction is under way of a segment that was not the first of
\* several candidates with seglets to give up.
LaterCandidateOfLargerDelta ==
    \E t \in DOMAIN workers :
        /\ workers[t].pc = "m_reloc"
        /\ pass[t].freeableSeglets = 2
        /\ \E c \in Range(candidates) : Delta(c) = 1

\* C16: when no candidate has a positive delta and getSegmentToCompact
\* returns a segment, it is a candidate of the greatest
\* tombstoneCount * (now - lastCompactionTimestamp), the freeable seglets it
\* reports are 0, and the compaction hands the segment over with the seglets
\* it had.
FallbackPicksMostTombstones ==
    /\ [][\A t \in Tids :
            SelectsToCompact(t) /\ ~SomePositiveDelta /\ workers'[t].pc = "m_reloc" =>
               /\ pass'[t].segment \in Range(candidates)
               /\ \A c \in Range(candidates) :
                     Goodness(c) <= Goodness(pass'[t].segment)
               /\ pass'[t].freeableSeglets = 0
               /\ pass'[t].fallback]_vars
    /\ [](\A h \in MemoryHandovers :
            h.fallback => h.segletsAfter = h.segletsBefore)

\* C16: a fallback compaction of the second of two candidates, the one with
\* more tombstones, has been handed over.
FallbackHandedOver ==
    \E h \in MemoryHandovers :
        /\ h.fallback
        /\ h.old = {2}
        /\ h.segletsAfter = h.segletsBefore

\* C17, as amended: getSegmentToCompact returns no segment exactly when no
\* candidate has a positive delta and every candidate has a
\* tombstoneCount * (now - lastCompactionTimestamp) of 0: it holds no
\* tombstone or was compacted within the current second.
NoWorkWithoutDeltaOrGoodness ==
    [][\A t \in Tids : SelectsToCompact(t) =>
          /\ workers'[t].pc = "end" <=>
                /\ ~SomePositiveDelta
                /\ \A c \in Range(candidates) : Goodness(c) = 0
          /\ workers'[t].pc = "end" => candidates' = candidates]_vars

\* C17: getSegmentToCompact has returned no segment with a candidate that
\* holds a tombstone and was compacted within the current second.
NoWorkDespiteTombstone ==
    /\ \E t \in DOMAIN workers :
          workers[t].pc = "end" /\ workers[t].ran = "memory" /\ ~workers[t].worked
    /\ ~SomePositiveDelta
    /\ \A c \in Range(candidates) : Goodness(c) = 0
    /\ \E c \in Range(candidates) :
          getEntryCount(c, "tomb") > 0 /\ segs[c].lastCompactionTimestamp = now

\* C17, as the specification has it: getSegmentToCompact returns no segment
\* exactly when no candidate has a positive delta and no candidate holds a
\* tombstone.
NoWorkOnlyWithoutTombstones ==
    [][\A t \in Tids : SelectsToCompact(t) =>
          (workers'[t].pc = "end" <=>
                /\ ~SomePositiveDelta
                /\ \A c \in Range(candidates) : getEntryCount(c, "tomb") = 0)]_vars

\* The step of thread t that is its call of getSegmentsToClean.
SelectsToClean(t) ==
    /\ t \in DOMAIN workers
    /\ workers[t].pc = "disk"
    /\ workers'[t].pc # "disk"

\* C18: a segment selected for a disk-cleaning pass has a memory utilization
\* of at most MAX_CLEANABLE_MEMORY_UTILIZATION when it is selected and until
\* the pass is over, and the selection leaves every candidate above that
\* bound among the candidates.
OnlyCompactedSegmentsAreCleaned ==
    /\ [][\A t \in Tids : SelectsToClean(t) =>
            /\ \A c \in Range(pass'[t].segmentsToClean) :
                  /\ c \in Range(candidates)
                  /\ getMemoryUtilization(c) <= MAX_CLEANABLE_MEMORY_UTILIZATION
            /\ \A c \in Range(candidates) :
                  getMemoryUtilization(c) > MAX_CLEANABLE_MEMORY_UTILIZATION
                     => c \in Range(candidates')
            /\ Range(candidates') \cup Range(pass'[t].segmentsToClean)
                  = Range(candidates)]_vars
    /\ [](\A t \in DiskCleaners : \A c \in Range(pass[t].segmentsToClean) :
            getMemoryUtilization(c) <= MAX_CLEANABLE_MEMORY_UTILIZATION)

\* C18: a disk-cleaning pass is under way while a candidate above the bound
\* has stayed among the candidates.
FullCandidatePassedOver ==
    \E t \in DiskCleaners :
        /\ pass[t].segmentsToClean # <<>>
        /\ \E c \in Range(candidates) :
              getMemoryUtilization(c) > MAX_CLEANABLE_MEMORY_UTILIZATION

\* C19: the live bytes of the segments a disk-cleaning pass selects, as they
\* are when the selection is made and for the rest of the pass, sum to at
\* most MAX_LIVE_SEGMENTS_PER_DISK_PASS * segmentSize.
SelectionWithinMaximumLiveBytes ==
    /\ [][\A t \in Tids : SelectsToClean(t) =>
            SumLive(segs, pass'[t].segmentsToClean)
               <= MAX_LIVE_SEGMENTS_PER_DISK_PASS * segmentSize]_vars
    /\ [](\A t \in DiskCleaners :
            SumLive(segs, pass[t].segmentsToClean)
               <= MAX_LIVE_SEGMENTS_PER_DISK_PASS * segmentSize)

\* C19: a pass has selected two segments and left a third, cleanable one
\* that would have taken it over the maximum.
SelectionStoppedAtMaximum ==
    \E t \in DiskCleaners :
        /\ Len(pass[t].segmentsToClean) = 2
        /\ \E c \in Range(candidates) :
              /\ getMemoryUtilization(c) <= MAX_CLEANABLE_MEMORY_UTILIZATION
              /\ SumLive(segs, pass[t].segmentsToClean) + segs[c].liveBytes
                    > MAX_LIVE_SEGMENTS_PER_DISK_PASS * segmentSize

\* The entries of the segments `survivors`, one survivor after the other.
RECURSIVE EntriesOf(_)
EntriesOf(survivors) ==
    IF survivors = <<>> THEN <<>>
    ELSE segs[Head(survivors)].entries \o EntriesOf(Tail(survivors))

Ascending(es) == \A i, j \in DOMAIN es : i < j => es[i].ts <= es[j].ts

Ceiling(a, b) == (a + b - 1) \div b

\* ceil(100 * liveBytes / (segletSize * MAX_CLEANABLE_MEMORY_UTILIZATION)).
CeilingOfSegletsNeeded(liveBytes, size) ==
    Ceiling(100 * liveBytes, size * MAX_CLEANABLE_MEMORY_UTILIZATION)

\* C15, as amended: for a segletSize of at least 10 bytes and every
\* liveBytes of a segment, the segletsNeeded that getSegmentToCompact computes
\* is the ceiling of 100 * liveBytes / (segletSize *
\* MAX_CLEANABLE_MEMORY_UTILIZATION) or one more than it (1 for liveBytes 0),
\* never less, and the product 100 * (liveBytes + segletSize - 1) does not
\* wrap.
SegletsNeededCoversTheCeiling ==
    call.fn = "segletsNeeded" /\ call.segletSize >= 10 =>
        /\ call.result >= CeilingOfSegletsNeeded(call.liveBytes, call.segletSize)
        /\ call.result <= CeilingOfSegletsNeeded(call.liveBytes, call.segletSize) + 1
        /\ (call.liveBytes = 0 => call.result = 1)
        /\ call.product < UINT32

\* C15: segletsNeeded was computed for a segment of the default size that is
\* all live.
NeededForFullDefaultSegment ==
    /\ call.fn = "segletsNeeded"
    /\ call.segletSize = DefaultSegletSize
    /\ call.liveBytes = DefaultSegmentSize
    /\ call.result > SegletsInDefaultSegment

\* C15, as the specification has it: for every segletSize and every
\* liveBytes of a segment, segletsNeeded is the ceiling of
\* 100 * liveBytes / (segletSize * MAX_CLEANABLE_MEMORY_UTILIZATION), and
\* the product does not wrap.
SegletsNeededIsTheCeiling ==
    call.fn = "segletsNeeded" =>
        /\ call.result = CeilingOfSegletsNeeded(call.liveBytes, call.segletSize)
        /\ call.product < UINT32

\* The pass of thread t is at an entry it has yet to call relocateEntry on.
AtEntry(t) ==
    \/ workers[t].pc = "m_reloc" /\ ~isDone(pass[t].segment, pass[t].idx)
    \/ workers[t].pc = "d_reloc" /\ pass[t].idx <= Len(pass[t].entries)

\* The reference of that entry, and the entry.
ReferenceAt(t) ==
    IF workers[t].pc = "m_reloc"
    THEN getReference(pass[t].segment, pass[t].idx)
    ELSE getReference(pass[t].entries[pass[t].idx].segment,
                      pass[t].entries[pass[t].idx].offset)
EntryAt(t) == segs[ReferenceAt(t).seg].entries[ReferenceAt(t).off]

\* The relocation of the pass of thread t is one that fails: the entry the
\* compaction is at, or the entry a disk-cleaning pass tries again in the
\* survivor it has just allocated, is live and finds no space.
FailingRelocation(t) ==
    /\ AtEntry(t)
    /\ workers[t].pc = "d_reloc" => pass[t].retry
    /\ relocateEntry(segs, EntryAt(t), ReferenceAt(t), pass[t].survivor)
          = "RELOCATION_FAILED"

\* C21: a relocation that fails in an in-memory compaction, or on the retry
\* into the survivor a disk-cleaning pass has just allocated, is fatal: the
\* step that meets it ends the process, hands nothing over (neither
\* compactionComplete nor cleaningComplete is called, no pass is counted, the
\* segments of the pass are not freed), and no step follows a fatal error.
RelocationFailureIsFatal ==
    [][/\ ~aborted
       /\ \A t \in DOMAIN workers :
            (FailingRelocation(t) /\ (memRelocate(t) \/ diskRetry(t))) =>
                /\ aborted'
                /\ handover' = handover
                /\ pass' = pass
                /\ segs' = segs
                /\ cleanable' = cleanable
                /\ totalRuns' = totalRuns
                /\ totalSegmentsCompacted' = totalSegmentsCompacted]_vars

\* C21 witness: the process has died of a relocation that failed, its pass
\* not handed over.
DiedOfFailedRelocation ==
    /\ aborted
    /\ \E t \in DOMAIN workers :
          FailingRelocation(t) /\ handover[t] = NoHandover

\* A step of thread t that calls relocateEntry.
CallsRelocateEntry(t) == memRelocate(t) \/ diskRelocate(t) \/ diskRetry(t)

\* No segment has an entry more or less than before.
NothingAppended == \A s \in AllSlots : segs'[s].entries = segs[s].entries

\* C22: relocateEntry changes state only when it returns RELOCATED.  For an
\* entry the liveness handler reports dead it returns NOT_NEEDED, for a live
\* one the survivor has no space for RELOCATION_FAILED, and in both cases
\* nothing is appended, the registry is as it was (the relocated handler is
\* not invoked) and bytesAppended is what it was (the caller may then add it
\* to the full survivor's liveBytes and clear it); otherwise it returns
\* RELOCATED, the entry is appended once to the survivor, the registry holds
\* the new reference of a relocated object and bytesAppended has grown by the
\* entry's length.
RelocateEntryChangesStateOnlyWhenRelocated ==
    [][\A t \in DOMAIN workers :
         (AtEntry(t) /\ CallsRelocateEntry(t)) =>
            LET p == pass[t]
                e == EntryAt(t)
                s == relocateEntry(segs, e, ReferenceAt(t), p.survivor)
            IN IF ~IsLive(e, ReferenceAt(t))
               THEN /\ s = "NOT_NEEDED"
                    /\ segs' = segs
                    /\ registry' = registry
                    /\ pass'[t].bytesAppended = p.bytesAppended
               ELSE IF ~Fits(segs, p.survivor, e)
               THEN /\ s = "RELOCATION_FAILED"
                    /\ NothingAppended
                    /\ registry' = registry
                    /\ \/ pass'[t].bytesAppended = p.bytesAppended
                       \/ /\ p.survivor # NULL
                          /\ segs'[p.survivor].liveBytes =
                                 segs[p.survivor].liveBytes + p.bytesAppended
                          /\ pass'[t].bytesAppended = 0
               ELSE /\ s = "RELOCATED"
                    /\ segs' = [segs EXCEPT ![p.survivor].entries = Append(@, e)]
                    /\ registry' =
                          IF e.type = "obj"
                          THEN [registry EXCEPT ![e.id] =
                                  getReference(p.survivor,
                                               Len(segs'[p.survivor].entries))]
                          ELSE registry
                    /\ pass'[t].bytesAppended = p.bytesAppended + e.len]_vars

\* The entries of a disk-cleaning pass that it has gone past.
Passed(p) == {p.entries[i] : i \in 1 .. (p.idx - 1)}

\* C22 witness: a disk-cleaning pass that has met the three results: its
\* first live entry found no survivor, was relocated into the one allocated
\* for it, and an entry the pass has gone past was dead and is in no survivor.
PassMetTheThreeResults ==
    \E t \in DOMAIN workers :
        /\ workers[t].pc = "d_reloc"
        /\ pass[t].survivors # <<>>
        /\ pass[t].bytesAppended > 0
        /\ \E x \in Passed(pass[t]) :
              \A s \in Range(pass[t].survivors) :
                 \A k \in DOMAIN segs[s].entries :
                    segs[s].entries[k].id # segs[x.segment].entries[x.offset].id

\* C23: a compaction that completes has freed (survivorAllocated -
\* sourceAllocated) + freeableSeglets seglets of the survivor when
\* compactionComplete is called, so the compacted segment has exactly
\* sourceAllocated - freeableSeglets seglets, never more than the source had.
CompactedSegmentHasSourceLessFreeable ==
    [][\A t \in DOMAIN workers :
         (workers[t].pc = "m_reloc" /\ memComplete(t) /\ ~aborted') =>
            LET p == pass[t]
                survivorAllocated == segs[p.survivor].alloc
                sourceAllocated == segs[p.segment].alloc
            IN /\ survivorAllocated - segs'[p.survivor].alloc =
                    (survivorAllocated - sourceAllocated) + p.freeableSeglets
               /\ segs'[p.survivor].alloc = sourceAllocated - p.freeableSeglets
               /\ segs'[p.survivor].alloc <= sourceAllocated
               /\ handover'[t].kind = "memory"
               /\ handover'[t].segletsAfter = segs'[p.survivor].alloc]_vars

\* C23 witness: a completed compaction of a segment that had fewer seglets
\* than its survivor was allocated with, and that ended with fewer still.
SmallerSourceCompactedToFewerSeglets ==
    \E h \in MemoryHandovers :
        /\ h.segletsBefore < segletsPerSegment
        /\ h.segletsAfter < h.segletsBefore

\* The keys under examination.
Keys == IF call.fn = "Key" THEN call.keys ELSE <<>>

\* Two keys of the same table identifier, length and bytes.
SameKey(key, other) ==
    /\ key.tableId = other.tableId
    /\ key.stringKeyLength = other.stringKeyLength
    /\ SubSeq(key.stringKey, 1, key.stringKeyLength)
          = SubSeq(other.stringKey, 1, other.stringKeyLength)

\* A key with its hash computed and cached, and without.
Hashed(key) == KeyGetHash(key).key
Unhashed(key) == [key EXCEPT !.hash = <<>>]

\* C24: key equality is decided by (tableId, key length, key bytes) only.
\* Whatever hashes have been computed and cached, operator== of two keys is
\* true exactly when they have the same table identifier, length and bytes,
\* it returns what it returns with either hash cached or not, it is
\* reflexive, symmetric and transitive, and operator!= is its negation; the
\* calls made returned these values.
EqualityByTableIdLengthAndBytes ==
    /\ \A i, j \in DOMAIN Keys :
          /\ operatorEq(Keys[i], Keys[j]) = SameKey(Keys[i], Keys[j])
          /\ \A a \in {Hashed(Keys[i]), Unhashed(Keys[i])} :
                \A b \in {Hashed(Keys[j]), Unhashed(Keys[j])} :
                   operatorEq(a, b) = operatorEq(Keys[i], Keys[j])
          /\ operatorEq(Keys[i], Keys[i])
          /\ operatorEq(Keys[i], Keys[j]) = operatorEq(Keys[j], Keys[i])
          /\ operatorNe(Keys[i], Keys[j]) = ~operatorEq(Keys[i], Keys[j])
          /\ \A k \in DOMAIN Keys :
                (operatorEq(Keys[i], Keys[j]) /\ operatorEq(Keys[j], Keys[k]))
                   => operatorEq(Keys[i], Keys[k])
    /\ (call.fn = "Key" /\ call.returned.fn = "operator==") =>
          call.returned.value = SameKey(Keys[call.returned.a], Keys[call.returned.b])
    /\ (call.fn = "Key" /\ call.returned.fn = "operator!=") =>
          call.returned.value = ~SameKey(Keys[call.returned.a], Keys[call.returned.b])

\* C24 witness: two keys whose cached hashes are the same were compared and
\* found unequal, and two keys of the same bytes in different memory, one
\* hashed and one not, are equal.
HashedKeysCompared ==
    /\ call.fn = "Key"
    /\ call.returned.fn = "operator=="
    /\ ~call.returned.value
    /\ LET a == Keys[call.returned.a]
           b == Keys[call.returned.b]
       IN a.hash # <<>> /\ a.hash = b.hash
    /\ \E i, j \in DOMAIN Keys :
          /\ Keys[i].stringKey # Keys[j].stringKey
          /\ Keys[i].hash # <<>> /\ Keys[j].hash = <<>>
          /\ operatorEq(Keys[i], Keys[j])

\* Two keys whose table identifiers agree modulo 2^32 and whose lengths and
\* bytes are the same.
SameLowWordAndBytes(key, other) ==
    /\ key.tableId.lo = other.tableId.lo
    /\ key.stringKeyLength = other.stringKeyLength
    /\ SubSeq(key.stringKey, 1, key.stringKeyLength)
          = SubSeq(other.stringKey, 1, other.stringKeyLength)

\* C25: the fingerprint is a function of the low 32 bits of the table
\* identifier and the key bytes.  A cached hash is the static
\* getHash(tableId, key, length) of the key, every getHash() call, the first
\* and the repeated ones, returned that value, and two keys that agree in
\* the low word of their table identifiers and in their bytes have the same
\* fingerprint, also when their table identifiers differ and they compare
\* unequal.
FingerprintOfLowWordAndBytes ==
    /\ \A i \in DOMAIN Keys :
          /\ Keys[i].hash # <<>> =>
                Keys[i].hash[1] = getHash(Keys[i].tableId, Keys[i].stringKey,
                                          Keys[i].stringKeyLength)
          /\ KeyGetHash(Hashed(Keys[i])).value = KeyGetHash(Keys[i]).value
    /\ (call.fn = "Key" /\ call.returned.fn = "getHash") =>
          LET key == Keys[call.returned.a]
          IN /\ call.returned.value =
                   getHash(key.tableId, key.stringKey, key.stringKeyLength)
             /\ key.hash = <<call.returned.value>>
    /\ \A i, j \in DOMAIN Keys :
          SameLowWordAndBytes(Keys[i], Keys[j]) =>
             /\ KeyGetHash(Keys[i]).value = KeyGetHash(Keys[j]).value
             /\ Keys[i].tableId # Keys[j].tableId =>
                   operatorNe(Keys[i], Keys[j])

\* C25 witness: getHash() was called again on a key whose hash was cached,
\* and another key of the same bytes, of a table identifier that differs in
\* its high word only, has the same hash cached and compares unequal.
SameFingerprintInTwoTables ==
    /\ call.fn = "Key"
    /\ call.returned.fn = "getHash"
    /\ call.returned.cached
    /\ \E j \in DOMAIN Keys :
          LET key == Keys[call.returned.a]
              other == Keys[j]
          IN /\ SameLowWordAndBytes(key, other)
             /\ key.tableId.hi # other.tableId.hi
             /\ other.hash = key.hash
             /\ ~operatorEq(key, other)

\* The running workers that have taken their number.
Numbered == {t \in Running : workers[t].pc # "entry"}

\* C26: after any sequence of start() and stop() calls, whenever the workers
\* of the cleaner are running (all numThreads of them, each with its number
\* taken), their numbers are distinct and are exactly 0 .. numThreads - 1,
\* so that one of them is worker 0, the only one that cleans on disk.
WorkerNumbersAreZeroToNumThreads ==
    (Cardinality(Running) = numThreads /\ Numbered = Running) =>
        /\ \A t, u \in Running :
              t # u => workers[t].threadNumber # workers[u].threadNumber
        /\ {workers[t].threadNumber : t \in Running} = 0 .. (numThreads - 1)
        /\ Cardinality({t \in Running : workers[t].threadNumber = 0}) = 1

\* The cleaner has been started and no stop() is under way.
Started == mainPc = "idle" /\ lastCall \in {"start", "start again"}

\* A pass has just been handed over that freed seglets.
FreedSeglets ==
    \E h \in Handovers : h.kind # "none" /\ h.segletsAfter < h.segletsBefore

\* The passes the model follows have been made.
PassesMade == totalRuns + totalSegmentsCompacted >= MaxPasses

ForwardProgressWithWorkerZero ==
    (/\ Started /\ ~disableInMemoryCleaning /\ SomePositiveDelta
     /\ \E t \in Running : workers[t].pc # "entry" /\ workers[t].threadNumber = 0)
        ~> (FreedSeglets \/ PassesMade \/ threadsShouldExit)

\* The segments the pass of thread t has taken to compact or to clean.
Taken(t) ==
    IF pass[t].segment # NULL THEN {pass[t].segment}
    ELSE Range(pass[t].segmentsToClean)

\* C28: a segment is processed by at most one pass at a time.  The segments
\* a pass has taken are in no other worker's pass, neither as what it
\* compacts or cleans nor as a survivor, they are no longer among the
\* candidates nor with the segment manager's cleanable segments, so that no
\* selection can return them again, and no segment is a candidate twice.
OnePassPerSegment ==
    /\ \A t, u \in DOMAIN pass :
          t # u =>
             /\ Taken(t) \cap Taken(u) = {}
             /\ Taken(t) \cap (Range(pass[u].survivors) \cup {pass[u].survivor}) = {}
    /\ \A t \in DOMAIN pass :
          /\ Taken(t) \cap Range(candidates) = {}
          /\ Taken(t) \cap cleanable = {}
          /\ \A s \in Taken(t) : segs[s].used
    /\ \A i, j \in DOMAIN candidates : i # j => candidates[i] # candidates[j]

\* C28 witness: one worker relocates the entries of the segment it took to
\* compact while the other relocates those of the segment it took to clean
\* on disk, one of them having selected among the candidates the other left.
CompactionAndDiskCleaningAtOnce ==
    \E t, u \in DOMAIN workers :
        /\ workers[t].pc = "m_reloc"
        /\ workers[u].pc = "d_reloc"
        /\ Taken(t) # {}
        /\ Taken(u) # {}

\* The disk-cleaning passes that have sampled maxLiveBytes.
Sampled ==
    {t \in DOMAIN workers : workers[t].pc \in {"d_reloc", "d_sync"}}

\* C29: in every disk-cleaning pass, with the writer freeing objects at any
\* moment of it, the bytes appended to survivors for relocated entries are at
\* most the sum of the selected segments' liveBytes as sampled before the
\* relocation: entryBytesAppended <= maxLiveBytes at every step of the
\* relocation and where doDiskCleaning asserts it.
AppendedWithinSampledLiveBytes ==
    \A t \in Sampled :
        /\ pass[t].entryBytesAppended <= pass[t].maxLiveBytes
        /\ assertBytes(pass[t].entryBytesAppended, pass[t].maxLiveBytes)
        /\ pass[t].entryBytesAppended = SumLen(EntriesOf(pass[t].survivors))

\* C29 witness: a pass has relocated entries and is about to assert, and the
\* writer has freed an object of a selected segment since the sample.
FreedSinceTheSample ==
    \E t \in DOMAIN workers :
        /\ workers[t].pc = "d_sync"
        /\ pass[t].entryBytesAppended > 0
        /\ SumLive(segs, pass[t].segmentsToClean) < pass[t].maxLiveBytes

\* The in-memory compactions under way.
Compacting == {t \in DOMAIN workers : workers[t].pc = "m_reloc"}

\* C30: in every in-memory compaction, at every entry and when the loop is
\* done, the seglets the survivor is asked to free, (survivorAllocated -
\* sourceAllocated) + freeableSeglets, are no fewer than freeableSeglets (the
\* difference is not negative and nothing wraps) and at most
\* survivorAllocated - survivorSegletsInUse, so that freeUnusedSeglets
\* succeeds and assert(r) holds, and what has been relocated, header
\* included, fits in sourceAllocated - freeableSeglets seglets.
SurvivorCanFreeWhatItIsAskedTo ==
    \A t \in Compacting :
        LET p == pass[t]
            survivorAllocated == segs[p.survivor].alloc
            sourceAllocated == segs[p.segment].alloc
            inUse == getSegletsInUse(segs, p.survivor)
            n == segletsToFree(survivorAllocated, sourceAllocated,
                               p.freeableSeglets)
        IN /\ survivorAllocated >= sourceAllocated
           /\ n = (survivorAllocated - sourceAllocated) + p.freeableSeglets
           /\ n >= p.freeableSeglets
           /\ n <= survivorAllocated - inUse
           /\ canFreeUnusedSeglets(segs, p.survivor, n)
           /\ inUse <= sourceAllocated - p.freeableSeglets
           /\ getAppendedLength(segs, p.survivor)
                 <= (sourceAllocated - p.freeableSeglets) * segletSize

\* C30 witness: a compaction whose loop is done, of a segment that had fewer
\* seglets than its survivor and has seglets to give up, and the survivor is
\* asked to free every seglet it does not use.
SurvivorAskedToFreeAllItDoesNotUse ==
    \E t \in Compacting :
        LET p == pass[t]
        IN /\ isDone(p.segment, p.idx)
           /\ p.bytesAppended > 0
           /\ p.freeableSeglets > 0
           /\ segs[p.segment].alloc < segs[p.survivor].alloc
           /\ segletsToFree(segs[p.survivor].alloc, segs[p.segment].alloc,
                            p.freeableSeglets)
                 = segs[p.survivor].alloc - getSegletsInUse(segs, p.survivor)

\* The steps of thread t that relocate an entry of a disk-cleaning pass.
DiskStep(t) == diskRelocate(t) \/ diskRetry(t)

\* The relocateEntry of a disk-cleaning pass finds its survivor full.
SurvivorFull(t) ==
    /\ AtEntry(t)
    /\ workers[t].pc = "d_reloc"
    /\ ~pass[t].retry
    /\ pass[t].survivor # NULL
    /\ relocateEntry(segs, EntryAt(t), ReferenceAt(t), pass[t].survivor)
          = "RELOCATION_FAILED"

\* The places of the entry `id` in the survivors of the pass p.
PlacesIn(p, id) ==
    {<<s, k>> \in Range(p.survivors) \X (1 .. segmentSize) :
        k \in DOMAIN segs[s].entries /\ segs[s].entries[k].id = id}

\* The entry the pass p has gone past is where it has to be: in one place of
\* one survivor at most, and in one when it is alive (for an object, the
\* place the registry refers to).
Kept(p, x) ==
    LET e == segs[x.segment].entries[x.offset]
    IN /\ Cardinality(PlacesIn(p, e.id)) <= 1
       /\ (e.type = "obj" /\ registry[e.id] # NoRef) =>
              PlacesIn(p, e.id) = {<<registry[e.id].seg, registry[e.id].off>>}
       /\ (e.type = "tomb" /\ e.id \notin tombDead) =>
              Cardinality(PlacesIn(p, e.id)) = 1

\* C31: the rollover of survivors loses and duplicates nothing.  A step of
\* a disk-cleaning pass that finds its survivor full closes it, allocates a
\* new one that becomes the last of the pass's survivors, and stays at the
\* same entry, which is relocated into the new survivor next; no step
\* appends to a closed segment; and every entry the pass has gone past that
\* is alive is in exactly one survivor, no entry being in two places.
RolloverLosesAndDuplicatesNothing ==
  /\ [](\A t \in Sampled : \A x \in Passed(pass[t]) : Kept(pass[t], x))
  /\ [][/\ \A s \in AllSlots :
            (segs[s].closed /\ segs'[s].used) => segs'[s].entries = segs[s].entries
       /\ \A t \in DOMAIN workers :
            /\ (SurvivorFull(t) /\ DiskStep(t)) =>
                  /\ segs'[pass[t].survivor].closed
                  /\ pass'[t].survivor \notin Range(pass[t].survivors)
                  /\ pass'[t].survivors = Append(pass[t].survivors, pass'[t].survivor)
                  /\ segs'[pass'[t].survivor].entries = <<>>
                  /\ ~segs'[pass'[t].survivor].closed
                  /\ pass'[t].idx = pass[t].idx
                  /\ pass'[t].retry
            /\ (workers[t].pc = "d_reloc" /\ pass[t].retry /\ DiskStep(t)
                   /\ IsLive(EntryAt(t), ReferenceAt(t))) =>
                  \/ aborted'
                  \/ /\ segs'[pass[t].survivor].entries =
                           Append(segs[pass[t].survivor].entries, EntryAt(t))
                     /\ pass'[t].survivor = pass[t].survivor
                     /\ pass'[t].idx = pass[t].idx + 1]_vars

\* C31 witness: a pass is through its entries with two survivors, the first
\* closed with an entry in it, the second holding the entry that did not fit
\* in the first.
EntryRetriedInTheNextSurvivor ==
    \E t \in DOMAIN workers :
        /\ workers[t].pc = "d_sync"
        /\ Len(pass[t].survivors) = 2
        /\ segs[pass[t].survivors[1]].closed
        /\ segs[pass[t].survivors[1]].entries # <<>>
        /\ segs[pass[t].survivors[2]].entries # <<>>
        /\ \A x \in Passed(pass[t]) :
              Cardinality(PlacesIn(pass[t], segs[x.segment].entries[x.offset].id)) = 1

\* The survivors of the pass p: the one of a compaction, those of a
\* disk-cleaning pass.
SurvivorsOf(p) ==
    Range(p.survivors) \cup (IF p.survivor # NULL THEN {p.survivor} ELSE {})

\* The bytes of the entries of segment s that the writer has freed there.
RECURSIVE FreedUpTo(_, _)
FreedUpTo(s, k) ==
    IF k = 0 THEN 0
    ELSE LET e == segs[s].entries[k]
         IN FreedUpTo(s, k - 1)
              + (IF e.type = "obj" /\ registry[e.id] # getReference(s, k)
                 THEN e.len ELSE 0)
FreedOf(s) == FreedUpTo(s, Len(segs[s].entries))

\* What the survivors of the pass p have been credited with.
RECURSIVE CreditedTo(_)
CreditedTo(survivors) ==
    IF survivors = <<>> THEN 0
    ELSE segs[Head(survivors)].liveBytes + FreedOf(Head(survivors))
           + CreditedTo(Tail(survivors))

\* C32: the liveBytes of a survivor is raised exactly once, by the step
\* that closes it after the last relocation into it, by the sum of the
\* lengths of the entries relocated into it, which is the bytesAppended that
\* relocateEntry has reported since the survivor before it was credited.
\* Until then a survivor is credited with nothing, afterwards with the bytes
\* of its own entries (less what the writer has freed of them), and at the
\* end of a disk-cleaning pass the survivors together are credited with
\* what the pass has appended.
SurvivorCreditedOnceWithItsOwnBytes ==
  /\ [](\A t \in DOMAIN pass : \A s \in SurvivorsOf(pass[t]) :
          /\ segs[s].liveBytes + FreedOf(s) =
                (IF segs[s].closed THEN SumLen(segs[s].entries) ELSE 0)
          /\ ~segs[s].closed =>
                /\ s = pass[t].survivor
                /\ pass[t].bytesAppended = SumLen(segs[s].entries)
          /\ workers[t].pc = "d_sync" =>
                CreditedTo(pass[t].survivors) = pass[t].entryBytesAppended)
  /\ [][\A t \in DOMAIN pass : \A s \in SurvivorsOf(pass[t]) :
          (segs'[s].used /\ segs'[s].liveBytes > segs[s].liveBytes) =>
             /\ s = pass[t].survivor
             /\ ~segs[s].closed
             /\ segs'[s].closed
             /\ segs'[s].entries = segs[s].entries
             /\ segs'[s].liveBytes - segs[s].liveBytes = pass[t].bytesAppended
             /\ pass[t].bytesAppended = SumLen(segs[s].entries)
             /\ (s \in SurvivorsOf(pass'[t])) => pass'[t].survivor # s
                    \/ workers'[t].pc = "d_sync"]_vars

\* C32 witness: a pass is through its entries with two survivors, the first
\* credited with all of its bytes and the second, an object of which the
\* writer has freed since it was relocated, with less than it holds.
TwoSurvivorsCredited ==
    \E t \in DOMAIN workers :
        /\ workers[t].pc = "d_sync"
        /\ Len(pass[t].survivors) = 2
        /\ segs[pass[t].survivors[1]].liveBytes =
              SumLen(segs[pass[t].survivors[1]].entries)
        /\ segs[pass[t].survivors[1]].liveBytes > 0
        /\ FreedOf(pass[t].survivors[2]) > 0
        /\ pass[t].entryBytesAppended =
              SumLen(EntriesOf(pass[t].survivors))

\* C33: the survivors of a disk-cleaning pass are allocated lazily.  A step
\* allocates a survivor only at an entry that is live; a pass without a
\* survivor has appended nothing, and no entry it has gone past is in
\* another segment; with no survivor there is no
\* sync; and the pass that ends without one still calls cleaningComplete,
\* with the segments it selected and an empty list of survivors, and is
\* counted.
SurvivorsAllocatedLazily ==
  /\ [](\A t \in Sampled :
          /\ pass[t].survivors = <<>> <=> pass[t].survivor = NULL
          /\ pass[t].survivors = <<>> =>
                /\ pass[t].bytesAppended = 0
                /\ pass[t].entryBytesAppended = 0
                /\ \A s \in AllSlots : \A k \in DOMAIN segs[s].entries :
                      segs[s].used /\ s \notin Range(pass[t].segmentsToClean) =>
                         \A x \in Passed(pass[t]) :
                            segs[s].entries[k].id
                               # segs[x.segment].entries[x.offset].id)
  /\ [][\A t \in DOMAIN workers :
          /\ (workers[t].pc = "d_reloc" /\ pass'[t].survivors # pass[t].survivors) =>
                /\ AtEntry(t)
                /\ IsLive(EntryAt(t), ReferenceAt(t))
                /\ pass[t].survivors = <<>> => Passed(pass[t]) = Passed(pass'[t])
          /\ diskSync(t) => pass[t].survivors # <<>>
          /\ (workers[t].pc = "d_sync" /\ pass[t].survivors = <<>>
                 /\ diskComplete(t)) =>
                /\ ~aborted'
                /\ handover'[t].kind = "disk"
                /\ handover'[t].old = Range(pass[t].segmentsToClean)
                /\ handover'[t].survivors = <<>>
                /\ \A s \in Range(pass[t].segmentsToClean) : ~segs'[s].used
                /\ \A s \in AllSlots : segs'[s].used => segs[s].used
                /\ totalRuns' = totalRuns + 1]_vars

\* C33 witness: a pass has cleaned a segment that held entries, none of them
\* live, and has handed it over with no survivor.
CleanedWithNoSurvivor ==
    \E h \in DiskHandovers :
        /\ h.old # {}
        /\ h.survivors = <<>>
        /\ h.segletsBefore > 0

\* The candidates of `seq` that getSegmentsToClean does not pass over.
RECURSIVE Eligible(_)
Eligible(seq) ==
    IF seq = <<>> THEN <<>>
    ELSE IF getMemoryUtilization(Head(seq)) > MAX_CLEANABLE_MEMORY_UTILIZATION
    THEN Eligible(Tail(seq))
    ELSE <<Head(seq)>> \o Eligible(Tail(seq))

\* The candidates in an order of descending cost-benefit.
Descending(seq) ==
    \A i, j \in DOMAIN seq : i < j => costBenefit(seq[i]) >= costBenefit(seq[j])

\* `selected` is what a selection takes of the candidates in the order
\* `sorted`: the first of the eligible ones, up to the first that would take
\* the live bytes over the maximum.
PrefixUpToTheMaximum(selected, sorted) ==
    LET eligible == Eligible(sorted)
        n == Len(selected)
    IN /\ n <= Len(eligible)
       /\ selected = SubSeq(eligible, 1, n)
       /\ SumLive(segs, selected) <= MAX_LIVE_SEGMENTS_PER_DISK_PASS * segmentSize
       /\ n < Len(eligible) =>
             SumLive(segs, selected) + segs[eligible[n + 1]].liveBytes
                > MAX_LIVE_SEGMENTS_PER_DISK_PASS * segmentSize

\* C34: getSegmentsToClean takes a prefix of the eligible candidates in
\* descending order of cost-benefit.  What it selects is in non-increasing
\* order of cost-benefit, no eligible candidate it leaves has a greater
\* cost-benefit than one it takes, there is an order of descending
\* cost-benefit of the candidates in which it has taken the eligible ones up
\* to the first that would take the live bytes over the maximum and none
\* after it, and the candidates afterwards are those of before less the
\* selected ones, each once.
SelectionIsPrefixInCostBenefitOrder ==
    [][\A t \in Tids : SelectsToClean(t) =>
         LET selected == pass'[t].segmentsToClean
         IN /\ Descending(selected)
            /\ \A c \in Range(candidates) \ Range(selected) :
                  getMemoryUtilization(c) <= MAX_CLEANABLE_MEMORY_UTILIZATION =>
                     \A x \in Range(selected) : costBenefit(x) >= costBenefit(c)
            /\ \E sorted \in Orders(candidates) :
                  Descending(sorted) /\ PrefixUpToTheMaximum(selected, sorted)
            /\ Range(candidates') = Range(candidates) \ Range(selected)
            /\ Len(candidates') = Len(candidates) - Len(selected)
            /\ Cardinality(Range(selected)) = Len(selected)
            /\ Cardinality(Range(candidates')) = Len(candidates')]_vars

\* C34 witness: a pass has selected two segments, and of the eligible
\* candidates it has left, of no greater cost-benefit, one would have taken
\* it over the maximum and another would have fitted.
FittingCandidateLeftAfterTheStop ==
    \E t \in DiskCleaners :
        /\ workers[t].pc = "d_sample"
        /\ Len(pass[t].segmentsToClean) = 2
        /\ \E c, d \in Range(candidates) :
              /\ getMemoryUtilization(c) <= MAX_CLEANABLE_MEMORY_UTILIZATION
              /\ getMemoryUtilization(d) <= MAX_CLEANABLE_MEMORY_UTILIZATION
              /\ SumLive(segs, pass[t].segmentsToClean) + segs[c].liveBytes
                    > MAX_LIVE_SEGMENTS_PER_DISK_PASS * segmentSize
              /\ SumLive(segs, pass[t].segmentsToClean) + segs[d].liveBytes
                    <= MAX_LIVE_SEGMENTS_PER_DISK_PASS * segmentSize
              /\ costBenefit(d) <= costBenefit(c)

\* The comparisons of the sort under way, and those that returned true.
Compared == IF call.fn = "sort" THEN call.results ELSE {}
Before(a, b) == [a |-> a, b |-> b, value |-> TRUE] \in Compared
NotBefore(a, b) == [a |-> a, b |-> b, value |-> FALSE] \in Compared

\* C35: within one sort the cost-benefit of a segment is computed at most
\* once, a value cached at the sort's version stays what it is whatever the
\* writer frees and however the clock moves, and every comparison returns
\* the order of the two cached values; so no comparison of a pair returns
\* both true and false, none puts a segment before itself, no two put each
\* of two segments before the other, and what is before a segment that is
\* before a third is not found not to be before the third.  The first
\* comparison of a segment in a later sort computes its value anew, from
\* what the segment is then.
ComparerIsStrictWeakOrderingOverOneSort ==
  /\ [](call.fn = "sort" =>
          /\ \A s \in AllSlots : call.computed[s] <= 1
          /\ \A r \in Compared :
                /\ call.cache[r.a].costBenefitVersion = call.comparer.version
                /\ call.cache[r.b].costBenefitVersion = call.comparer.version
                /\ r.value = (call.cache[r.a].costBenefit
                                 > call.cache[r.b].costBenefit)
          /\ \A a, b \in AllSlots : ~(Before(a, b) /\ NotBefore(a, b))
          /\ \A a \in AllSlots : ~Before(a, a)
          /\ \A a, b \in AllSlots : ~(Before(a, b) /\ Before(b, a))
          /\ \A a, b, c \in AllSlots :
                (Before(a, b) /\ Before(b, c)) => ~NotBefore(a, c))
  /\ [][call.fn = "sort" =>
          \A s \in AllSlots :
             /\ (call'.comparer = call.comparer
                   /\ call.cache[s].costBenefitVersion = call.comparer.version)
                  => call'.cache[s] = call.cache[s]
             /\ (call'.cache[s] # call.cache[s]) =>
                  /\ call.cache[s].costBenefitVersion < call.comparer.version
                  /\ call'.cache[s].costBenefitVersion = call.comparer.version
                  /\ call'.cache[s].costBenefit =
                        costBenefitAt(s, call.comparer.now)
                  /\ call'.computed[s] = 1]_vars

\* C35 witness: in the second sort a segment has been compared both ways
\* with another, its value computed anew for this sort, and the writer has
\* since freed an object of it, so that the value cached is no longer what
\* would be computed.
ComparedBothWaysWhileFreed ==
    /\ call.fn = "sort"
    /\ call.sorting
    /\ call.comparer.version = 2
    /\ \E a, b \in InLog :
          /\ a # b
          /\ Before(a, b)
          /\ NotBefore(b, a)
          /\ call.computed[a] = 1
          /\ call.cache[a].costBenefit # costBenefitAt(a, call.comparer.now)

\* The disk utilization and the creation timestamp of segment s.
UtilizationOf(s) == (100 * segs[s].liveBytes) \div segmentSize
CreatedAt(s) == segs[s].creationTimestamp

\* C36: the cost-benefit a comparer constructed at time n computes for a
\* segment of disk utilization u is ((100 - u) * age) / u in integer
\* division, age being n less the creation timestamp, and 0 when the
\* segment was created after n; for u = 0 it is the maximum value.  No
\* cached value is negative or above the maximum, and no comparison puts a
\* segment before one that holds the maximum.
CostBenefitOfUtilizationAndAge ==
  /\ [](call.fn = "sort" =>
          /\ \A s \in AllSlots :
                /\ call.cache[s].costBenefit >= 0
                /\ call.cache[s].costBenefit <= UINT64MAX
          /\ \A a, b \in AllSlots :
                call.cache[b].costBenefit = UINT64MAX => ~Before(a, b))
  /\ [][call.fn = "sort" =>
          \A s \in AllSlots :
             (call'.computed[s] > call.computed[s]) =>
                LET u == UtilizationOf(s)
                    n == call.comparer.now
                    value == call'.cache[s].costBenefit
                IN /\ u = 0 => value = UINT64MAX
                   /\ (u # 0 /\ CreatedAt(s) > n) => value = 0
                   /\ (u # 0 /\ CreatedAt(s) <= n) =>
                         /\ value * u <= (100 - u) * (n - CreatedAt(s))
                         /\ (value + 1) * u > (100 - u) * (n - CreatedAt(s))]_vars

\* C36 witness: a sort has computed the maximum for a segment the writer
\* had emptied, 0 for a segment created after the comparer's time, and a
\* value between for a third, which it has put after the first.
MaximumZeroAndBetween ==
    /\ call.fn = "sort"
    /\ \E a, b, c \in InLog :
          /\ call.computed[a] = 1 /\ call.computed[b] = 1 /\ call.computed[c] = 1
          /\ call.cache[a].costBenefit = UINT64MAX
          /\ segs[a].liveBytes = 0
          /\ CreatedAt(b) > call.comparer.now
          /\ segs[b].liveBytes > 0
          /\ call.cache[b].costBenefit = 0
          /\ call.cache[c].costBenefit > 1
          /\ call.cache[c].costBenefit < UINT64MAX
          /\ Before(a, c)

\* The step of thread t completes a disk-cleaning pass.
CompletesDiskPass(t) ==
    /\ t \in DOMAIN workers
    /\ workers[t].pc = "d_sync"
    /\ workers'[t].pc = "end"

\* C37: the disk-cleaning counters account the completed passes exactly.
\* The step that completes a pass adds the number of segments it cleaned to
\* totalSegmentsCleaned, the number of its survivors to
\* totalSurvivorsCreated, 1 to totalRuns and (cleaned - survivors) *
\* segmentSize to totalDiskBytesFreed; no other step, the return of a pass
\* that selected no segment among them, changes any of them; none ever
\* decreases; and totalSurvivorsCreated <= totalSegmentsCleaned in every
\* state.
DiskMetricsAccountCompletedPasses ==
  /\ [](/\ onDiskMetrics.totalSurvivorsCreated <= onDiskMetrics.totalSegmentsCleaned
        /\ onDiskMetrics.totalDiskBytesFreed =
              (onDiskMetrics.totalSegmentsCleaned
                 - onDiskMetrics.totalSurvivorsCreated) * segmentSize
        /\ totalRuns <= onDiskMetrics.totalSegmentsCleaned)
  /\ [][/\ \A t \in Tids : CompletesDiskPass(t) =>
             LET cleaned == Len(pass[t].segmentsToClean)
                 survivors == Len(pass[t].survivors)
             IN /\ cleaned >= 1
                /\ onDiskMetrics'.totalSegmentsCleaned =
                      onDiskMetrics.totalSegmentsCleaned + cleaned
                /\ onDiskMetrics'.totalSurvivorsCreated =
                      onDiskMetrics.totalSurvivorsCreated + survivors
                /\ onDiskMetrics'.totalDiskBytesFreed =
                      onDiskMetrics.totalDiskBytesFreed
                        + (cleaned - survivors) * segmentSize
                /\ totalRuns' = totalRuns + 1
        /\ (\A t \in Tids : ~CompletesDiskPass(t)) =>
              /\ onDiskMetrics' = onDiskMetrics
              /\ totalRuns' = totalRuns
        /\ onDiskMetrics'.totalSegmentsCleaned >= onDiskMetrics.totalSegmentsCleaned
        /\ onDiskMetrics'.totalSurvivorsCreated >= onDiskMetrics.totalSurvivorsCreated
        /\ onDiskMetrics'.totalDiskBytesFreed >= onDiskMetrics.totalDiskBytesFreed
        /\ totalRuns' >= totalRuns]_vars

\* C37 witness: one pass is counted, which cleaned two segments into one
\* survivor, and the worker has since returned from a pass that found no
\* segment to select.
OnePassCountedAndOneEmpty ==
    /\ totalRuns = 1
    /\ onDiskMetrics.totalSegmentsCleaned = 2
    /\ onDiskMetrics.totalSurvivorsCreated = 1
    /\ onDiskMetrics.totalDiskBytesFreed = segmentSize
    /\ \E t \in DOMAIN workers :
          /\ workers[t].pc = "end"
          /\ workers[t].ran = "disk"
          /\ ~workers[t].worked

\* A step in which an exception leaves doWork in thread t: the FatalError of
\* a relocation that fails.
ExceptionEscapes(t) ==
    FailingRelocation(t) /\ (memRelocate(t) \/ diskRetry(t))

\* C38: an exception that escapes doWork in a worker ends the whole process.
\* The step in which it is thrown leaves the process dead with every worker
\* where it was (none has left its loop) and the candidates as they were;
\* after it no worker and no writer takes a step; and while the process
\* lives, no worker that holds segments it took out of the candidates is
\* out of its pass.
EscapingExceptionEndsTheProcess ==
    /\ [][\A t \in DOMAIN workers :
            ExceptionEscapes(t) =>
                /\ aborted'
                /\ workers' = workers
                /\ candidates' = candidates
                /\ cleanable' = cleanable
                /\ registry' = registry]_vars
    /\ [][~aborted]_vars
    /\ [](~aborted =>
            \A t \in HoldingSegments :
                workers[t].pc \in {"m_reloc", "d_sample", "d_reloc", "d_sync"})

\* C38 witness: the process has died of a relocation that failed in one
\* worker while another worker was in a pass of its own, which it does not
\* go on with.
DiedWhileAnotherWorkerCleaned ==
    /\ aborted
    /\ \E t \in DOMAIN workers :
          /\ FailingRelocation(t)
          /\ \E u \in HoldingSegments :
                u # t /\ AtEntry(u) /\ ~FailingRelocation(u)

=============================================================================
